---- MODULE Spec2Model ----
(***************************************************************************)
(* Model of voronoi_finite_polygons_2d (src/free/generate_voronoi.py,      *)
(* lines 20-81; src/free/debug_voronoi.py lines 21-83 is the same code),   *)
(* of generate_voronoi in both scripts (specification SpecGen) and of the  *)
(* half_16bit_* functions of src/week11 (specification SpecHalf), and of  *)
(* the data loading loop and the outlier step of                           *)
(* src/data_analysis_assignment.py and src/総合課題実習.py (specifications   *)
(* SpecLoad and SpecOutlier).                                              *)
(*                                                                         *)
(* Floating point numbers are modelled as fixed point integers: a Python   *)
(* float f is the integer nearest to f * Scale.  Indices into Python lists *)
(* are kept 0-based as in the source (At reads them, including Python's    *)
(* negative indices); the sentinel "at infinity" index is -1.              *)
(***************************************************************************)
EXTENDS Integers, Sequences, FiniteSets, TLC

VARIABLES vor, radius_arg, pc, new_regions, new_vertices, center, radius,
          all_ridges, k, p1, j, pts, region_vertices, calls, returned

\* a second invocation of the builder, suspended
VARIABLES parked

\* the arguments, the locals and the results of one invocation of the builder
frame == <<vor, radius_arg, pc, new_regions, new_vertices, center, radius,
           all_ridges, k, p1, j, pts, region_vertices, calls, returned>>

\* src/week11: the arguments a and b of a half_16bit_* call and what it returned
VARIABLES half_a, half_b, half_out

half == <<half_a, half_b, half_out>>

\* generate_voronoi: which of the two scripts runs, the margin of the clip box,
\* the labels of the sites, the position in the function, the site the clipping
\* loop is at, the clipped geometries and the features of the GeoJSON file
VARIABLES impl, clip_margin_m, pts_labels, gpc, site, poly_list, features

gen == <<impl, clip_margin_m, pts_labels, gpc, site, poly_list, features>>

\* load_data / データ読み込み: which script runs, the position in the function, the
\* number of prompts shown, the line typed at the last prompt, the files on disk
\* and the data frame returned
VARIABLES load_impl, load_pc, prompts, typed, disk, load_df

\* handle_outliers / 外れ値処理: which script runs, the position in the function,
\* the frame passed, the lines typed for the column and for the deletion, the
\* outlier count printed and the frame returned
VARIABLES out_impl, out_pc, out_df, col_typed, action_typed, reported, out_ret

load == <<load_impl, load_pc, prompts, typed, disk, load_df>>
outl == <<out_impl, out_pc, out_df, col_typed, action_typed, reported, out_ret>>

\* what no step of the running invocation touches
outer == <<parked, half, gen, load, outl>>

vars == <<frame, outer>>

-----------------------------------------------------------------------------
(* Bounds and program constants *)

\* number of invocations of the builder on the same arguments
MaxCalls == 2

\* fixed point resolution of a float: 1/Scale
Scale == 100

\* the sentinel vertex index of scipy's Voronoi ("at infinity")
Sentinel == -1

\* "radius = np.ptp(vor.points).max() * 2"
RadiusFactor == 2

\* radius=None; a supplied radius r is <<r>>
None == <<>>

-----------------------------------------------------------------------------
(* Python lists and numpy helpers *)

\* seq[i] of Python: 0-based, a negative index counts from the end
At(seq, i) == IF i >= 0 THEN seq[i + 1] ELSE seq[Len(seq) + i + 1]

Abs(x) == IF x < 0 THEN -x ELSE x

\* np.sign
Sign(x) == IF x > 0 THEN 1 ELSE IF x < 0 THEN -1 ELSE 0

\* a / b rounded to the nearest fixed point number (b > 0)
RoundDiv(a, b) ==
    IF a >= 0 THEN (2 * a + b) \div (2 * b) ELSE -((2 * (-a) + b) \div (2 * b))

RECURSIVE SqrtSearch(_, _, _)
\* the largest r in lo..hi with r * r <= n
SqrtSearch(n, lo, hi) ==
    IF lo >= hi THEN lo
    ELSE LET mid == (lo + hi + 1) \div 2
         IN  IF mid * mid <= n THEN SqrtSearch(n, mid, hi)
             ELSE SqrtSearch(n, lo, mid - 1)

\* sqrt(n) rounded to the nearest integer
Sqrt(n) ==
    LET r == SqrtSearch(n, 0, 46340)
    IN  IF n - r * r > r THEN r + 1 ELSE r

RECURSIVE SumSeq(_)
SumSeq(s) == IF s = <<>> THEN 0 ELSE Head(s) + SumSeq(Tail(s))

Column(points, c) == [i \in 1..Len(points) |-> points[i][c]]

\* arr.mean(axis=0) of an array of 2D points
Mean(points) ==
    <<RoundDiv(SumSeq(Column(points, 1)), Len(points)),
      RoundDiv(SumSeq(Column(points, 2)), Len(points))>>

SetMax(S) == CHOOSE x \in S : \A y \in S : y <= x
SetMin(S) == CHOOSE x \in S : \A y \in S : x <= y

\* np.ptp(arr) without axis: the range of the flattened array (a scalar)
Ptp(points) ==
    LET flat == {points[i][c] : i \in 1..Len(points), c \in 1..2}
    IN  SetMax(flat) - SetMin(flat)

\* np.linalg.norm(t)
Norm(t) == Sqrt(t[1] * t[1] + t[2] * t[2])

\* np.dot(a, n) for a fixed point vector a and a unit vector n (only its sign is used)
Dot(a, n) == a[1] * n[1] + a[2] * n[2]

-----------------------------------------------------------------------------
(* Inputs: diagrams as scipy.spatial.Voronoi gives them (vor.points,        *)
(* vor.vertices, vor.regions, vor.point_region, vor.ridge_points,           *)
(* vor.ridge_vertices), computed by hand for small site sets.               *)

\* the float x
Fx(x) == x * Scale
Pt(x, y) == <<Fx(x), Fx(y)>>
\* the point (x2 / 2, y2 / 2)
HalfPt(x2, y2) == <<(x2 * Scale) \div 2, (y2 * Scale) \div 2>>

\* spec scenario A: one finite vertex, three ridges each with one sentinel
ScenarioA ==
    [points         |-> <<Pt(0, 0), Pt(10, 0), Pt(0, 10)>>,
     vertices       |-> <<Pt(5, 5)>>,
     regions        |-> <<<<-1, 0>>, <<>>, <<0, -1>>, <<-1, 0>>>>,
     point_region   |-> <<3, 0, 2>>,
     ridge_points   |-> <<<<0, 1>>, <<0, 2>>, <<1, 2>>>>,
     ridge_vertices |-> <<<<-1, 0>>, <<-1, 0>>, <<-1, 0>>>>]

\* spec scenario B: four corner sites and one interior site
ScenarioB ==
    [points         |-> <<Pt(0, 0), Pt(10, 0), Pt(0, 10), Pt(10, 10), Pt(5, 5)>>,
     vertices       |-> <<Pt(5, 0), Pt(10, 5), Pt(5, 10), Pt(0, 5)>>,
     regions        |-> <<<<>>, <<-1, 0, 3>>, <<1, -1, 0>>, <<0, 3, 2, 1>>,
                          <<3, -1, 2>>, <<2, -1, 1>>>>,
     point_region   |-> <<1, 2, 4, 5, 3>>,
     ridge_points   |-> <<<<0, 1>>, <<0, 2>>, <<0, 4>>, <<1, 4>>,
                          <<3, 1>>, <<3, 4>>, <<2, 3>>, <<2, 4>>>>,
     ridge_vertices |-> <<<<-1, 0>>, <<-1, 3>>, <<0, 3>>, <<0, 1>>,
                          <<-1, 1>>, <<1, 2>>, <<-1, 2>>, <<2, 3>>>>]

\* the 3 x 3 unit grid of the scipy.spatial.Voronoi documentation
Grid ==
    [points         |-> <<Pt(0, 0), Pt(0, 1), Pt(0, 2), Pt(1, 0), Pt(1, 1),
                          Pt(1, 2), Pt(2, 0), Pt(2, 1), Pt(2, 2)>>,
     vertices       |-> <<HalfPt(1, 1), HalfPt(1, 3), HalfPt(3, 1), HalfPt(3, 3)>>,
     regions        |-> <<<<>>, <<-1, 0>>, <<-1, 1>>, <<1, -1, 0>>, <<3, -1, 2>>,
                          <<-1, 3>>, <<-1, 2>>, <<0, 1, 3, 2>>, <<2, -1, 0>>,
                          <<3, -1, 1>>>>,
     point_region   |-> <<1, 3, 2, 8, 7, 9, 6, 4, 5>>,
     ridge_points   |-> <<<<0, 3>>, <<0, 1>>, <<2, 5>>, <<2, 1>>, <<1, 4>>,
                          <<7, 8>>, <<7, 6>>, <<7, 4>>, <<8, 5>>, <<6, 3>>,
                          <<4, 5>>, <<4, 3>>>>,
     ridge_vertices |-> <<<<-1, 0>>, <<-1, 0>>, <<-1, 1>>, <<-1, 1>>, <<0, 1>>,
                          <<-1, 3>>, <<-1, 2>>, <<2, 3>>, <<-1, 3>>, <<-1, 2>>,
                          <<1, 3>>, <<0, 2>>>>]

\* a flat triangle: the circumcentre (5, -12) is 13 away from every site
NearCollinear ==
    [points         |-> <<Pt(0, 0), Pt(10, 0), Pt(5, 1)>>,
     vertices       |-> <<Pt(5, -12)>>,
     regions        |-> <<<<>>, <<-1, 0>>, <<-1, 0>>, <<-1, 0>>>>,
     point_region   |-> <<2, 1, 3>>,
     ridge_points   |-> <<<<1, 2>>, <<0, 2>>, <<0, 1>>>>,
     ridge_vertices |-> <<<<-1, 0>>, <<-1, 0>>, <<-1, 0>>>>]

\* a flatter triangle: the circumcentre (5, -24.75) lies far below the sites
Flat ==
    [points         |-> <<Pt(0, 0), Pt(10, 0), HalfPt(10, 1)>>,
     vertices       |-> <<<<Fx(5), -2475>>>>,
     regions        |-> <<<<>>, <<-1, 0>>, <<-1, 0>>, <<-1, 0>>>>,
     point_region   |-> <<2, 1, 3>>,
     ridge_points   |-> <<<<1, 2>>, <<0, 2>>, <<0, 1>>>>,
     ridge_vertices |-> <<<<-1, 0>>, <<-1, 0>>, <<-1, 0>>>>]

\* x coordinates in 0..10, y coordinates in 20..30
DisjointRanges ==
    [points         |-> <<Pt(0, 20), Pt(10, 20), Pt(0, 30)>>,
     vertices       |-> <<Pt(5, 25)>>,
     regions        |-> <<<<-1, 0>>, <<-1, 0>>, <<>>, <<-1, 0>>>>,
     point_region   |-> <<0, 3, 1>>,
     ridge_points   |-> <<<<0, 1>>, <<1, 2>>, <<0, 2>>>>,
     ridge_vertices |-> <<<<-1, 0>>, <<-1, 0>>, <<-1, 0>>>>]

\* a diagram of 3-dimensional points: vor.points.shape[1] = 3
Spatial ==
    [points         |-> <<<<Fx(0), Fx(0), Fx(0)>>, <<Fx(1), Fx(0), Fx(0)>>,
                          <<Fx(0), Fx(1), Fx(0)>>, <<Fx(0), Fx(0), Fx(1)>>>>,
     vertices       |-> <<<<Fx(1) \div 2, Fx(1) \div 2, Fx(1) \div 2>>>>,
     regions        |-> <<<<-1, 0>>, <<>>>>,
     point_region   |-> <<0, 0, 0, 0>>,
     ridge_points   |-> <<<<0, 1>>, <<0, 2>>, <<0, 3>>, <<1, 2>>, <<1, 3>>, <<2, 3>>>>,
     ridge_vertices |-> <<<<-1, 0>>, <<-1, 0>>, <<-1, 0>>, <<-1, 0>>, <<-1, 0>>,
                          <<-1, 0>>>>]

\* a single site: its cell is the whole plane, no vertex and no ridge
OneSite ==
    [points         |-> <<Pt(0, 0)>>,
     vertices       |-> <<>>,
     regions        |-> <<<<-1>>>>,
     point_region   |-> <<0>>,
     ridge_points   |-> <<>>,
     ridge_vertices |-> <<>>]

\* two sites: the ridge between them is a full line, both ends at infinity
TwoSites ==
    [points         |-> <<Pt(0, 0), Pt(10, 0)>>,
     vertices       |-> <<>>,
     regions        |-> <<<<-1>>, <<-1>>>>,
     point_region   |-> <<1, 0>>,
     ridge_points   |-> <<<<0, 1>>>>,
     ridge_vertices |-> <<<<-1, -1>>>>]

Reverse(s) == [i \in 1..Len(s) |-> s[Len(s) + 1 - i]]

\* The order of a region's vertex list, the orientation of a ridge's site pair and
\* the position of the sentinel in a ridge's vertex pair are the constructor's choice.
ReverseRegions(d) ==
    [d EXCEPT !.regions = [r \in 1..Len(d.regions) |-> Reverse(d.regions[r])]]

FlipRidgePoints(d) ==
    [d EXCEPT !.ridge_points = [r \in 1..Len(d.ridge_points) |-> Reverse(d.ridge_points[r])]]

FlipRidgeVertices(d) ==
    [d EXCEPT !.ridge_vertices =
        [r \in 1..Len(d.ridge_vertices) |-> Reverse(d.ridge_vertices[r])]]

Variants(d) ==
    {IF c THEN FlipRidgeVertices(e) ELSE e :
        c \in BOOLEAN,
        e \in {IF b THEN FlipRidgePoints(f) ELSE f :
                  b \in BOOLEAN,
                  f \in {d, ReverseRegions(d)}}}

Planar == {ScenarioA, ScenarioB, Grid, NearCollinear, DisjointRanges}

\* diagrams outside the builder's normal input: not planar, or fewer than 3 sites
Degenerate == {Spatial, OneSite, TwoSites}

Diagrams == UNION {Variants(d) : d \in Planar \cup Degenerate}

\* the radius argument: None, or a float
Radii == {None, <<Fx(5)>>, <<Fx(50)>>}

-----------------------------------------------------------------------------
(* The builder's computations *)

\* vor.points.shape[1]
Dim(d) == Len(d.points[1])

NSites(d) == Len(d.point_region)

\* all_ridges.setdefault(p, []).append(e)
SetDefaultAppend(m, p, e) ==
    IF p \in DOMAIN m
    THEN [m EXCEPT ![p] = Append(@, e)]
    ELSE [q \in DOMAIN m \cup {p} |-> IF q = p THEN <<e>> ELSE m[q]]

\* vertices = vor.regions[region_idx], region_idx = vor.point_region[p1]
RegionOf(d, p) == At(d.regions, At(d.point_region, p))

\* AllFinite with any() for all()
AnyFinite(vertices) == \E i \in 1..Len(vertices) : vertices[i] >= 0

\* all(v >= 0 for v in vertices)
AllFinite(vertices) == \A i \in 1..Len(vertices) : vertices[i] >= 0

\* FiniteCoords with the vertices taken in reverse order
FiniteCoordsReversed(d, vertices) ==
    [i \in 1..Len(vertices) |-> At(d.vertices, vertices[Len(vertices) + 1 - i])]

\* [vor.vertices[v].tolist() for v in vertices]
FiniteCoords(d, vertices) == [i \in 1..Len(vertices) |-> At(d.vertices, vertices[i])]

\* "if v2 < 0: v1, v2 = v2, v1": the ridge's vertex pair after the swap
Swapped(v1, v2) == IF v2 < 0 THEN <<v2, v1>> ELSE <<v1, v2>>

\* "if v1 >= 0 and v2 >= 0: continue"
BothFinite(ridge) ==
    LET vv == Swapped(ridge[2], ridge[3]) IN vv[1] >= 0 /\ vv[2] >= 0

\* t = vor.points[p2] - vor.points[p1]; t = t / np.linalg.norm(t)
Tangent(d, q1, q2) ==
    LET a == At(d.points, q1)
        b == At(d.points, q2)
        t == <<b[1] - a[1], b[2] - a[2]>>
    IN  <<RoundDiv(t[1] * Scale, Norm(t)), RoundDiv(t[2] * Scale, Norm(t))>>

\* n = np.array([-t[1], t[0]])
Normal(t) == <<-t[2], t[1]>>

\* midpoint = vor.points[[p1, p2]].mean(axis=0)
Midpoint(d, q1, q2) == Mean(<<At(d.points, q1), At(d.points, q2)>>)

\* Direction with the factor np.sign(...) lost: direction = n
DirectionUnsigned(d, c, q1, q2) == Normal(Tangent(d, q1, q2))

\* direction = np.sign(np.dot(midpoint - center, n)) * n
Direction(d, c, q1, q2) ==
    LET n == Normal(Tangent(d, q1, q2))
        m == Midpoint(d, q1, q2)
        s == Sign(Dot(<<m[1] - c[1], m[2] - c[2]>>, n))
    IN  <<s * n[1], s * n[2]>>

\* FarPoint with the factor radius lost: vor.vertices[v2] + direction
FarPointUnit(d, c, r, q1, ridge) ==
    LET v2  == Swapped(ridge[2], ridge[3])[2]
        a   == At(d.vertices, v2)
        dir == Direction(d, c, q1, ridge[1])
    IN  <<a[1] + dir[1], a[2] + dir[2]>>

\* FarPoint with the radius applied twice: vor.vertices[v2] + direction * radius * 2
FarPointTwice(d, c, r, q1, ridge) ==
    LET v2  == Swapped(ridge[2], ridge[3])[2]
        a   == At(d.vertices, v2)
        dir == Direction(d, c, q1, ridge[1])
    IN  <<a[1] + RoundDiv(dir[1] * r * 2, Scale), a[2] + RoundDiv(dir[2] * r * 2, Scale)>>

\* far_point = vor.vertices[v2] + direction * radius
FarPoint(d, c, r, q1, ridge) ==
    LET v2  == Swapped(ridge[2], ridge[3])[2]
        a   == At(d.vertices, v2)
        dir == Direction(d, c, q1, ridge[1])
    IN  <<a[1] + RoundDiv(dir[1] * r, Scale), a[2] + RoundDiv(dir[2] * r, Scale)>>

\* Filter without the test "if v >= 0"
FilterNothing(vertices) == vertices

RECURSIVE Filter(_)
\* [v for v in vertices if v >= 0]
Filter(vertices) ==
    IF vertices = <<>> THEN <<>>
    ELSE IF Head(vertices) >= 0 THEN <<Head(vertices)>> \o Filter(Tail(vertices))
    ELSE Filter(Tail(vertices))

RECURSIVE FlattenFarOnly(_)
\* Flatten with line 71 lost: only new_v is appended for a pair
FlattenFarOnly(pairs) ==
    IF pairs = <<>> THEN <<>> ELSE <<Head(pairs)[2]>> \o FlattenFarOnly(Tail(pairs))

RECURSIVE Flatten(_)
\* for v2, new_v in pts: region_vertices.append(v2); region_vertices.append(new_v)
Flatten(pairs) ==
    IF pairs = <<>> THEN <<>> ELSE <<Head(pairs)[1], Head(pairs)[2]>> \o Flatten(Tail(pairs))

\* RegionVertices with lines 70-72 lost: the finite vertices of the region only
RegionVerticesFiniteOnly(vertices, pairs) == Filter(vertices)

\* region_vertices after lines 69-72
RegionVertices(vertices, pairs) == Filter(vertices) \o Flatten(pairs)

\* coords = np.array([new_vertices[v] for v in region_vertices])
Coords(table, idx) == [i \in 1..Len(idx) |-> At(table, idx[i])]

\* The order of np.arctan2(dy, dx) on offsets from the centroid, without computing
\* the angle: the class of the direction (below the x axis, angle 0, above the
\* x axis, angle pi), and the cross product within an open half plane.
AngleClass(v) ==
    IF v[2] < 0 THEN 0
    ELSE IF v[2] > 0 THEN 2
    ELSE IF v[1] >= 0 THEN 1 ELSE 3

\* arctan2(a) < arctan2(b)
AngleLess(a, b) ==
    \/ AngleClass(a) < AngleClass(b)
    \/ /\ AngleClass(a) = AngleClass(b)
       /\ AngleClass(a) \in {0, 2}
       /\ a[1] * b[2] - a[2] * b[1] > 0

\* coords - centroid, centroid = coords.mean(axis=0)
Offsets(coords) ==
    LET c == Mean(coords)
    IN  [i \in 1..Len(coords) |-> <<coords[i][1] - c[1], coords[i][2] - c[2]>>]

RECURSIVE InsertByAngle(_, _, _)
\* insert index i into the sorted index list, after the entries not greater than it
InsertByAngle(sorted, i, off) ==
    IF sorted = <<>> THEN <<i>>
    ELSE IF AngleLess(off[i], off[Head(sorted)]) THEN <<i>> \o sorted
    ELSE <<Head(sorted)>> \o InsertByAngle(Tail(sorted), i, off)

RECURSIVE ArgSortFrom(_, _, _)
ArgSortFrom(sorted, i, off) ==
    IF i > Len(off) THEN sorted
    ELSE ArgSortFrom(InsertByAngle(sorted, i, off), i + 1, off)

\* order = np.argsort(angles): numpy sorts fewer than 17 elements by insertion,
\* which keeps equal angles in their input order
ArgSort(off) == ArgSortFrom(<<>>, 1, off)

\* Polygon without the sort of lines 75-78
PolygonUnsorted(table, idx) == Coords(table, idx)

\* polygon = coords[order].tolist()
Polygon(table, idx) ==
    LET coords == Coords(table, idx)
        order  == ArgSort(Offsets(coords))
    IN  [i \in 1..Len(order) |-> coords[order[i]]]

-----------------------------------------------------------------------------
(* The state machine: one invocation after another on the same arguments *)

\* no half_16bit_* function has been called
HalfIdle == half_a = 0 /\ half_b = 0 /\ half_out = <<>>

\* load_data has not been called
OutlIdle ==
    /\ out_impl = "data_analysis_assignment.py"
    /\ out_pc = "idle"
    /\ out_df = None
    /\ col_typed = None
    /\ action_typed = None
    /\ reported = None
    /\ out_ret = None

LoadIdle ==
    /\ load_impl = "data_analysis_assignment.py"
    /\ load_pc = "idle"
    /\ prompts = 0
    /\ typed = <<>>
    /\ disk = <<>>
    /\ load_df = None

\* generate_voronoi has not been called
GenIdle ==
    /\ impl = "generate_voronoi.py"
    /\ clip_margin_m = 0
    /\ pts_labels = <<>>
    /\ gpc = "idle"
    /\ site = 0
    /\ poly_list = <<>>
    /\ features = <<>>

\* no call of the builder has been made
BuilderIdle ==
    /\ vor = OneSite
    /\ radius_arg = None
    /\ pc = "start"
    /\ new_regions = <<>>
    /\ new_vertices = <<>>
    /\ center = <<0, 0>>
    /\ radius = 0
    /\ all_ridges = <<>>
    /\ k = 0
    /\ p1 = 0
    /\ j = 0
    /\ pts = <<>>
    /\ region_vertices = <<>>
    /\ calls = 1
    /\ returned = <<>>
    /\ parked = <<>>

Init ==
    /\ vor \in Diagrams
    /\ radius_arg \in Radii
    /\ pc = "start"
    /\ new_regions = <<>>
    /\ new_vertices = <<>>
    /\ center = <<0, 0>>
    /\ radius = 0
    /\ all_ridges = <<>>
    /\ k = 0
    /\ p1 = 0
    /\ j = 0
    /\ pts = <<>>
    /\ region_vertices = <<>>
    /\ calls = 1
    /\ returned = <<>>
    /\ parked = <<>>
    /\ HalfIdle
    /\ GenIdle
    /\ LoadIdle
    /\ OutlIdle

\* lines 25-26: raise ValueError("Requires 2D input")
RaiseNot2D ==
    /\ pc = "start"
    /\ Dim(vor) # 2
    /\ pc' = "ValueError"
    /\ UNCHANGED <<vor, radius_arg, new_regions, new_vertices, center, radius,
                   all_ridges, k, p1, j, pts, region_vertices, calls, returned, outer>>

\* Enter with the ridge index kept from the previous call (line 35 lost)
EnterKeepRidges ==
    /\ pc = "start"
    /\ Dim(vor) = 2
    /\ new_regions' = <<>>
    /\ new_vertices' = vor.vertices
    /\ center' = Mean(vor.points)
    /\ radius' = IF radius_arg = None THEN Ptp(vor.points) * RadiusFactor
                 ELSE radius_arg[1]
    /\ k' = 0
    /\ pc' = "index"
    /\ UNCHANGED <<vor, radius_arg, all_ridges, p1, j, pts, region_vertices, calls,
                   returned, outer>>

\* lines 27-35: the locals of one call
Enter ==
    /\ pc = "start"
    /\ Dim(vor) = 2
    /\ new_regions' = <<>>
    /\ new_vertices' = vor.vertices
    /\ center' = Mean(vor.points)
    /\ radius' = IF radius_arg = None THEN Ptp(vor.points) * RadiusFactor
                 ELSE radius_arg[1]
    /\ all_ridges' = <<>>
    /\ k' = 0
    /\ pc' = "index"
    /\ UNCHANGED <<vor, radius_arg, p1, j, pts, region_vertices, calls, returned, outer>>

\* IndexRidge with line 38 lost: the ridge is recorded for its first site only
IndexRidgeOneWay ==
    /\ pc = "index"
    /\ k < Len(vor.ridge_points)
    /\ LET rp == At(vor.ridge_points, k)
           rv == At(vor.ridge_vertices, k)
       IN  all_ridges' = SetDefaultAppend(all_ridges, rp[1], <<rp[2], rv[1], rv[2]>>)
    /\ k' = k + 1
    /\ UNCHANGED <<vor, radius_arg, pc, new_regions, new_vertices, center, radius,
                   p1, j, pts, region_vertices, calls, returned, outer>>

\* lines 36-38: one iteration of the loop over the ridges
IndexRidge ==
    /\ pc = "index"
    /\ k < Len(vor.ridge_points)
    /\ LET rp == At(vor.ridge_points, k)
           rv == At(vor.ridge_vertices, k)
       IN  all_ridges' =
               SetDefaultAppend(
                   SetDefaultAppend(all_ridges, rp[1], <<rp[2], rv[1], rv[2]>>),
                   rp[2], <<rp[1], rv[1], rv[2]>>)
    /\ k' = k + 1
    /\ UNCHANGED <<vor, radius_arg, pc, new_regions, new_vertices, center, radius,
                   p1, j, pts, region_vertices, calls, returned, outer>>

\* line 36 exhausted, line 41: the loop over the sites starts
IndexDone ==
    /\ pc = "index"
    /\ k = Len(vor.ridge_points)
    /\ p1' = 0
    /\ pc' = "sites"
    /\ UNCHANGED <<vor, radius_arg, new_regions, new_vertices, center, radius,
                   all_ridges, k, j, pts, region_vertices, calls, returned, outer>>

\* FiniteRegion with the append of line 45 lost
FiniteRegionNoAppend ==
    /\ pc = "sites"
    /\ p1 < NSites(vor)
    /\ AllFinite(RegionOf(vor, p1))
    /\ p1' = p1 + 1
    /\ UNCHANGED <<vor, radius_arg, pc, new_regions, new_vertices, center, radius,
                   all_ridges, k, j, pts, region_vertices, calls, returned, outer>>

\* lines 41-46: a finite region is copied
FiniteRegion ==
    /\ pc = "sites"
    /\ p1 < NSites(vor)
    /\ AllFinite(RegionOf(vor, p1))
    /\ new_regions' = Append(new_regions, FiniteCoords(vor, RegionOf(vor, p1)))
    /\ p1' = p1 + 1
    /\ UNCHANGED <<vor, radius_arg, pc, new_vertices, center, radius, all_ridges,
                   k, j, pts, region_vertices, calls, returned, outer>>

\* lines 41-43, 48-50: a region with a sentinel is reconstructed
BeginReconstruct ==
    /\ pc = "sites"
    /\ p1 < NSites(vor)
    /\ ~AllFinite(RegionOf(vor, p1))
    /\ p1 \in DOMAIN all_ridges
    /\ pts' = <<>>
    /\ j' = 0
    /\ pc' = "ridges"
    /\ UNCHANGED <<vor, radius_arg, new_regions, new_vertices, center, radius,
                   all_ridges, k, p1, region_vertices, calls, returned, outer>>

\* RaiseKeyError with the failing site skipped instead (try/except: continue)
KeyErrorSkipped ==
    /\ pc = "sites"
    /\ p1 < NSites(vor)
    /\ ~AllFinite(RegionOf(vor, p1))
    /\ p1 \notin DOMAIN all_ridges
    /\ p1' = p1 + 1
    /\ UNCHANGED <<vor, radius_arg, pc, new_regions, new_vertices, center, radius,
                   all_ridges, k, j, pts, region_vertices, calls, returned, outer>>

\* lines 41-43, 48-49: "ridges = all_ridges[p1]" for a site without ridge
RaiseKeyError ==
    /\ pc = "sites"
    /\ p1 < NSites(vor)
    /\ ~AllFinite(RegionOf(vor, p1))
    /\ p1 \notin DOMAIN all_ridges
    /\ pc' = "KeyError"
    /\ UNCHANGED <<vor, radius_arg, new_regions, new_vertices, center, radius,
                   all_ridges, k, p1, j, pts, region_vertices, calls, returned, outer>>

\* seq[i] of Python raises IndexError
OutOfRange(seq, i) == i >= Len(seq) \/ i < -Len(seq)

\* the index the code reads the anchor with: v2 after the swap of lines 52-53
AnchorIndex(ridge) == Swapped(ridge[2], ridge[3])[2]

\* lines 51-63: "vor.vertices[v2]" with an index the vertex table does not have
RaiseIndexError ==
    /\ pc = "ridges"
    /\ j < Len(all_ridges[p1])
    /\ ~BothFinite(At(all_ridges[p1], j))
    /\ OutOfRange(vor.vertices, AnchorIndex(At(all_ridges[p1], j)))
    /\ pc' = "IndexError"
    /\ UNCHANGED <<vor, radius_arg, new_regions, new_vertices, center, radius,
                   all_ridges, k, p1, j, pts, region_vertices, calls, returned, outer>>

\* lines 51-56: a ridge with two finite vertices is skipped
RidgeBothFinite ==
    /\ pc = "ridges"
    /\ j < Len(all_ridges[p1])
    /\ BothFinite(At(all_ridges[p1], j))
    /\ j' = j + 1
    /\ UNCHANGED <<vor, radius_arg, pc, new_regions, new_vertices, center, radius,
                   all_ridges, k, p1, pts, region_vertices, calls, returned, outer>>

\* RidgeFarPoint with new_vertices the diagram's own table (the copy of line 28 lost)
RidgeFarPointAliased ==
    /\ pc = "ridges"
    /\ j < Len(all_ridges[p1])
    /\ ~BothFinite(At(all_ridges[p1], j))
    /\ ~OutOfRange(vor.vertices, AnchorIndex(At(all_ridges[p1], j)))
    /\ LET ridge == At(all_ridges[p1], j)
           v2    == AnchorIndex(ridge)
       IN  /\ new_vertices' =
                  Append(new_vertices, FarPoint(vor, center, radius, p1, ridge))
           /\ pts' = Append(pts, <<v2, Len(new_vertices')  - 1>>)
    /\ vor' = [vor EXCEPT !.vertices = new_vertices']
    /\ j' = j + 1
    /\ UNCHANGED <<radius_arg, pc, new_regions, center, radius, all_ridges,
                   k, p1, region_vertices, calls, returned, outer>>

\* lines 51-66: the missing endpoint of a ridge is computed and appended
RidgeFarPoint ==
    /\ pc = "ridges"
    /\ j < Len(all_ridges[p1])
    /\ ~BothFinite(At(all_ridges[p1], j))
    /\ ~OutOfRange(vor.vertices, AnchorIndex(At(all_ridges[p1], j)))
    /\ LET ridge == At(all_ridges[p1], j)
           v2    == AnchorIndex(ridge)
       IN  /\ new_vertices' =
                  Append(new_vertices, FarPoint(vor, center, radius, p1, ridge))
           /\ pts' = Append(pts, <<v2, Len(new_vertices')  - 1>>)
    /\ j' = j + 1
    /\ UNCHANGED <<vor, radius_arg, pc, new_regions, center, radius, all_ridges,
                   k, p1, region_vertices, calls, returned, outer>>

\* lines 68-79: the region's vertices are collected, ordered and emitted
CloseRegion ==
    /\ pc = "ridges"
    /\ j = Len(all_ridges[p1])
    /\ region_vertices' = RegionVertices(RegionOf(vor, p1), pts)
    /\ new_regions' = Append(new_regions, Polygon(new_vertices, region_vertices'))
    /\ p1' = p1 + 1
    /\ pc' = "sites"
    /\ UNCHANGED <<vor, radius_arg, new_vertices, center, radius, all_ridges, k,
                   j, pts, calls, returned, outer>>

\* line 81: return new_regions
Return ==
    /\ pc = "sites"
    /\ p1 = NSites(vor)
    /\ returned' = Append(returned, new_regions)
    /\ pc' = "done"
    /\ UNCHANGED <<vor, radius_arg, new_regions, new_vertices, center, radius,
                   all_ridges, k, p1, j, pts, region_vertices, calls, outer>>

\* the caller invokes the builder again with the same diagram and radius
Reinvoke ==
    /\ pc = "done"
    /\ calls < MaxCalls
    /\ calls' = calls + 1
    /\ pc' = "start"
    /\ UNCHANGED <<vor, radius_arg, new_regions, new_vertices, center, radius,
                   all_ridges, k, p1, j, pts, region_vertices, returned, outer>>

Next ==
    \/ RaiseNot2D
    \/ Enter
    \/ IndexRidge
    \/ IndexDone
    \/ FiniteRegion
    \/ BeginReconstruct
    \/ RaiseKeyError
    \/ RidgeBothFinite
    \/ RidgeFarPoint
    \/ RaiseIndexError
    \/ CloseRegion
    \/ Return
    \/ Reinvoke

Spec == Init /\ [][Next]_vars

-----------------------------------------------------------------------------
(* Vocabulary of the properties *)

\* the sites' region of the diagram, read from the diagram alone
DiagramRegion(i) == vor.regions[vor.point_region[i + 1] + 1]

HasSentinel(i) == \E m \in 1..Len(DiagramRegion(i)) : DiagramRegion(i)[m] = Sentinel

\* the polygon emitted for site i (0-based)
Emitted(i) == new_regions[i + 1]

\* the sites whose polygon has been emitted by the running call
Processed == IF pc \in {"sites", "ridges", "done"} THEN 0..(Len(new_regions) - 1) ELSE {}

Elems(s) == {s[i] : i \in 1..Len(s)}

\* coordinates of the extended vertex table that the builder appended
Synthetic == {new_vertices[i] : i \in (Len(vor.vertices) + 1)..Len(new_vertices)}

Cross(o, a, b) == (a[1] - o[1]) * (b[2] - o[2]) - (a[2] - o[2]) * (b[1] - o[1])

\* p lies on the closed segment a-b
OnSegment(p, a, b) ==
    /\ Cross(a, b, p) = 0
    /\ (p[1] - a[1]) * (p[1] - b[1]) <= 0
    /\ (p[2] - a[2]) * (p[2] - b[2]) <= 0

\* the horizontal ray from p to the right crosses the edge a-b
RayCrosses(p, a, b) ==
    /\ (a[2] > p[2]) # (b[2] > p[2])
    /\ IF b[2] > a[2] THEN Cross(a, b, p) > 0 ELSE Cross(a, b, p) < 0

Succ(poly, i) == IF i = Len(poly) THEN poly[1] ELSE poly[i + 1]

\* p is in the interior or on the boundary of the closed polygon (even-odd rule)
Contains(poly, p) ==
    \/ \E i \in 1..Len(poly) : OnSegment(p, poly[i], Succ(poly, i))
    \/ Cardinality({i \in 1..Len(poly) : RayCrosses(p, poly[i], Succ(poly, i))}) % 2 = 1

-----------------------------------------------------------------------------
(* Claims *)

\* C1: the builder emits exactly one region per site, in site order: while the loop
\* runs the number of emitted regions is the number of sites handled, at the return
\* it is the number of sites, and the i-th emitted region is built from
\* vor.regions[vor.point_region[i]] (a copy of its vertices when it has no sentinel,
\* otherwise its finite vertices and appended far points only).
C1_OneRegionPerSiteInOrder ==
    /\ pc \in {"sites", "ridges"} => Len(new_regions) = p1
    /\ pc = "done" => /\ Len(new_regions) = Len(vor.points)
                      /\ returned[Len(returned)] = new_regions
    /\ \A i \in Processed :
          LET fin == {vor.vertices[DiagramRegion(i)[m] + 1] :
                         m \in {n \in 1..Len(DiagramRegion(i)) : DiagramRegion(i)[n] >= 0}}
          IN  /\ fin \subseteq Elems(Emitted(i))
              /\ Elems(Emitted(i)) \subseteq fin \cup Synthetic
              /\ HasSentinel(i) <=> Elems(Emitted(i)) \cap Synthetic # {}

C1_Witness ==
    /\ pc = "done"
    /\ Len(new_regions) = 9
    /\ \E i \in Processed : HasSentinel(i)
    /\ \E i \in Processed : ~HasSentinel(i) /\ Len(Emitted(i)) = 4

\* the diagram has at least 3 distinct sites that are not all on one line
NonCollinearSites ==
    /\ Len(vor.points[1]) = 2
    /\ Len(vor.points) >= 3
    /\ \A a, b \in 1..Len(vor.points) : a # b => vor.points[a] # vor.points[b]
    /\ \E a, b, c \in 1..Len(vor.points) :
          Cross(vor.points[a], vor.points[b], vor.points[c]) # 0

\* C2: with the default radius, for at least 3 non-collinear distinct sites, the
\* polygon emitted for site i contains site i in its interior or on its boundary.
C2_PolygonContainsSite ==
    (pc = "done" /\ radius_arg = None /\ NonCollinearSites)
        => \A i \in Processed : Contains(Emitted(i), vor.points[i + 1])

\* C3: a region without sentinel is emitted as the coordinates of the diagram's
\* vertices at its indices, in the same order and with the same length.
C3_FiniteRegionPassthrough ==
    \A i \in Processed :
        ~HasSentinel(i) =>
            /\ Len(Emitted(i)) = Len(DiagramRegion(i))
            /\ \A m \in 1..Len(DiagramRegion(i)) :
                  Emitted(i)[m] = vor.vertices[DiagramRegion(i)[m] + 1]

C3_Witness ==
    /\ pc = "sites"
    /\ p1 = 5
    /\ ~HasSentinel(4)
    /\ DiagramRegion(4) = <<0, 1, 3, 2>>
    /\ Emitted(4) = <<HalfPt(1, 1), HalfPt(1, 3), HalfPt(3, 3), HalfPt(3, 1)>>

\* the running call has just emitted the polygon of a region with a sentinel
JustClosed == pc = "sites" /\ p1 > 0 /\ HasSentinel(p1 - 1)

\* C4: for an unbounded region every collected vertex index is a non-sentinel index
\* of the extended vertex table and the emitted coordinates are the table's entries
\* at these indices; at every step every entry of the extended vertex table is a
\* pair of finite numbers, a far point at most the radius away from a vertex of
\* the diagram on each axis.
C4_NoSentinelInOutput ==
    /\ pc = "ridges" => \A m \in 1..Len(pts) :
                           /\ pts[m][1] >= 0
                           /\ pts[m][1] < Len(vor.vertices)
                           /\ pts[m][2] >= Len(vor.vertices)
                           /\ pts[m][2] < Len(new_vertices)
    /\ JustClosed =>
          /\ \A m \in 1..Len(region_vertices) :
                region_vertices[m] >= 0 /\ region_vertices[m] < Len(new_vertices)
          /\ Len(Emitted(p1 - 1)) = Len(region_vertices)
          /\ Elems(Emitted(p1 - 1)) = {new_vertices[region_vertices[m] + 1] :
                                          m \in 1..Len(region_vertices)}
    /\ pc \in {"index", "sites", "ridges", "done"} =>
          \A m \in 1..Len(new_vertices) :
              /\ Len(new_vertices[m]) = 2
              /\ new_vertices[m][1] \in Int /\ new_vertices[m][2] \in Int
              /\ \E v \in 1..Len(vor.vertices) :
                    /\ Abs(new_vertices[m][1] - vor.vertices[v][1]) <= radius
                    /\ Abs(new_vertices[m][2] - vor.vertices[v][2]) <= radius

C4_Witness ==
    /\ JustClosed
    /\ Len(DiagramRegion(p1 - 1)) = 3
    /\ Len(region_vertices) = 6
    /\ Len(new_vertices) > Len(vor.vertices)

NoRepeat(s) == \A a, b \in 1..Len(s) : a # b => s[a] # s[b]

\* C5: a polygon emitted for an unbounded region has no repeated vertex: the
\* region's vertex indices are assembled as a set (each anchor index once) and
\* no coordinate occurs twice in the emitted sequence.
C5_NoRepeatedVertex ==
    /\ JustClosed => NoRepeat(region_vertices)
    /\ \A i \in Processed : HasSentinel(i) => NoRepeat(Emitted(i))

\* the vertices of the polygon are in nondecreasing order of their angle
\* (arctan2) around the mean of the polygon's vertices
SortedByAngle(poly) ==
    \A m \in 1..(Len(poly) - 1) : ~AngleLess(Offsets(poly)[m + 1], Offsets(poly)[m])

AxisRange(c) ==
    SetMax({vor.points[i][c] : i \in 1..Len(vor.points)})
        - SetMin({vor.points[i][c] : i \in 1..Len(vor.points)})

\* C7: without a radius argument the radius is twice the larger of the two
\* per-axis coordinate ranges, 2 * max(max_x - min_x, max_y - min_y).
C7_DefaultRadiusPerAxis ==
    (pc \in {"index", "sites", "ridges", "done"} /\ radius_arg = None)
        => radius = 2 * SetMax({AxisRange(1), AxisRange(2)})

\* C8: invocations with the same diagram and radius return identical lists of
\* polygons: every value returned so far equals the first one.
C8_SameArgumentsSameResult ==
    \A a, b \in 1..Len(returned) : returned[a] = returned[b]

C8_Witness ==
    /\ pc = "done"
    /\ calls = 2
    /\ Len(returned) = 2
    /\ Len(returned[2]) = 9
    /\ \E i \in Processed : HasSentinel(i) /\ Len(returned[2][i + 1]) = 6

\* C9: scenario B. The polygon of the interior site (5,5) consists of the diagram's
\* own vertices only and no far point is created for it: the table grows by the
\* eight far points of the four corner sites, two per corner in site order, and
\* each corner's polygon uses its two far points.
C9_ScenarioB ==
    (pc = "done" /\ vor \in Variants(ScenarioB)) =>
        /\ Len(new_regions) = 5
        /\ Elems(Emitted(4)) = Elems(vor.vertices)
        /\ Elems(Emitted(4)) \cap Synthetic = {}
        /\ Len(new_vertices) = Len(vor.vertices) + 8
        /\ \A i \in 0..3 :
              /\ HasSentinel(i)
              /\ {new_vertices[Len(vor.vertices) + 2 * i + 1],
                  new_vertices[Len(vor.vertices) + 2 * i + 2]} \subseteq Elems(Emitted(i))
              /\ new_vertices[Len(vor.vertices) + 2 * i + 1] \notin Elems(vor.vertices)
              /\ new_vertices[Len(vor.vertices) + 2 * i + 2] \notin Elems(vor.vertices)

C9_Witness ==
    /\ pc = "done"
    /\ vor = ScenarioB
    /\ radius_arg = None
    /\ Emitted(4) = <<Pt(5, 0), Pt(0, 5), Pt(5, 10), Pt(10, 5)>>
    /\ Pt(5, -20) \in Elems(Emitted(0))

\* the distance between a and b is r, up to the rounding of the unit vector
AtDistance(a, b, r) ==
    LET d2  == (a[1] - b[1]) * (a[1] - b[1]) + (a[2] - b[2]) * (a[2] - b[2])
        tol == r \div Scale + 1
    IN  (r - tol) * (r - tol) <= d2 /\ d2 <= (r + tol) * (r + tol)

Raised == pc \in {"ValueError", "KeyError", "IndexError"}

\* the diagram has fewer than 2 sites
FewerThanTwoSites == Len(vor.points) < 2

IsPrefix(s, t) == Len(s) <= Len(t) /\ \A i \in 1..Len(s) : t[i] = s[i]

\* C12: no step changes the diagram (vertex table, regions, ridge tables, points);
\* within a call the extended vertex table only grows at its end, and once the
\* call has copied it, it starts with the diagram's vertex table.
C12_DiagramReadOnly ==
    [][/\ vor' = vor
       /\ pc # "start" => IsPrefix(new_vertices, new_vertices')
       /\ pc' \notin {"start", "ValueError"} => IsPrefix(vor'.vertices, new_vertices')]_vars

C12_Witness ==
    /\ pc = "done"
    /\ calls = 2
    /\ vor = Grid
    /\ Len(new_vertices) = Len(vor.vertices) + 16

\* the number of ridges the loop of lines 36-38 has indexed
Indexed ==
    IF pc = "index" THEN k
    ELSE IF pc \in {"sites", "ridges", "done", "KeyError", "IndexError"}
         THEN Len(vor.ridge_points)
         ELSE 0

\* the entry that ridge r (1-based) gives to its site p
EntryOf(r, p) ==
    <<IF vor.ridge_points[r][1] = p THEN vor.ridge_points[r][2]
      ELSE vor.ridge_points[r][1],
      vor.ridge_vertices[r][1], vor.ridge_vertices[r][2]>>

RidgesAt(p) == {r \in 1..Indexed : p \in Elems(vor.ridge_points[r])}

\* C18: the adjacency index is symmetric and complete: every indexed ridge between
\* p1 and p2 with vertices (v1, v2) has the entry (p2, v1, v2) in the list of p1 and
\* (p1, v1, v2) in the list of p2, the list of a site has exactly one entry per
\* ridge of that site, every entry comes from a ridge of the site, and only sites
\* with a ridge have a list.
C18_AdjacencyIndex ==
    pc \in {"index", "sites", "ridges", "done", "KeyError", "IndexError"} =>
        /\ DOMAIN all_ridges = {p \in 0..(Len(vor.points) - 1) : RidgesAt(p) # {}}
        /\ \A p \in DOMAIN all_ridges :
              /\ Len(all_ridges[p]) = Cardinality(RidgesAt(p))
              /\ \A r \in RidgesAt(p) : EntryOf(r, p) \in Elems(all_ridges[p])
              /\ \A e \in Elems(all_ridges[p]) : \E r \in RidgesAt(p) : e = EntryOf(r, p)

C18_Witness ==
    /\ pc = "sites"
    /\ p1 = 0
    /\ vor = ScenarioB
    /\ all_ridges[4] = <<<<0, 0, 3>>, <<1, 0, 1>>, <<3, 1, 2>>, <<2, 2, 3>>>>
    /\ all_ridges[0] = <<<<1, -1, 0>>, <<2, -1, 3>>, <<4, 0, 3>>>>

\* ridge has exactly one sentinel among its two vertices
OneSentinel(ridge) == (ridge[2] = Sentinel) # (ridge[3] = Sentinel)

\* the ridge the loop of line 51 has just processed
LastRidge == all_ridges[p1][j]

\* a - b
Minus(a, b) == <<a[1] - b[1], a[2] - b[2]>>

\* off is perpendicular to t, up to the rounding of off to the fixed-point grid
Perpendicular(off, t, r) ==
    Abs(off[1] * t[1] + off[2] * t[2]) <= (r \div Scale + 1) * (Abs(t[1]) + Abs(t[2]))

\* C19: after a ridge with exactly one sentinel has been processed for an unbounded
\* site, the pair recorded for it is (anchor, index of the last vertex of the
\* extended table), the anchor is the ridge's finite vertex whichever position the
\* sentinel has, and the appended vertex far satisfies: far - anchor is
\* perpendicular to p2 - p1, points away from the center
\* (dot(far - anchor, midpoint(p1, p2) - center) > 0) and has length radius; the
\* radius is the one fixed at entry, and every far point of the region lies at that
\* distance from its anchor.
C19_FarPointPlacement ==
    (pc = "ridges" /\ j >= 1 /\ OneSentinel(LastRidge)) =>
        LET ridge  == LastRidge
            finite == IF ridge[2] = Sentinel THEN ridge[3] ELSE ridge[2]
            anchor == vor.vertices[finite + 1]
            far    == new_vertices[Len(new_vertices)]
            a      == vor.points[p1 + 1]
            b      == vor.points[ridge[1] + 1]
            mid2   == <<a[1] + b[1], a[2] + b[2]>>
            off    == Minus(far, anchor)
        IN  /\ pts # <<>>
            /\ pts[Len(pts)] = <<finite, Len(new_vertices) - 1>>
            /\ Len(new_vertices) > Len(vor.vertices)
            /\ Perpendicular(off, Minus(b, a), radius)
            /\ Dot(off, <<mid2[1] - 2 * center[1], mid2[2] - 2 * center[2]>>) > 0
            /\ AtDistance(far, anchor, radius)
            /\ radius_arg # None => radius = radius_arg[1]
            /\ \A i \in 1..Len(pts) :
                  AtDistance(new_vertices[pts[i][2] + 1], vor.vertices[pts[i][1] + 1], radius)

C19_Witness ==
    /\ pc = "ridges"
    /\ vor = FlipRidgeVertices(ScenarioB)
    /\ radius_arg = <<Fx(50)>>
    /\ p1 = 0
    /\ j >= 1
    /\ OneSentinel(LastRidge)
    /\ LastRidge[3] = Sentinel
    /\ Len(pts) = 2

\* the ridge the loop of line 51 is about to process
NextRidge == all_ridges[p1][j + 1]

\* C20: a far point is synthesized only for ridges with exactly one sentinel: the
\* pairs recorded for a region are as many as the one-sentinel ridges processed so
\* far, the vertex index read on line 63 for a ridge that is not skipped is never
\* the sentinel, and no call ends in an IndexError.
C20_FarPointOnlyForOneSentinel ==
    /\ pc # "IndexError"
    /\ pc = "ridges" =>
          /\ Len(pts) = Cardinality({i \in 1..j : OneSentinel(all_ridges[p1][i])})
          /\ (j < Len(all_ridges[p1]) /\ ~BothFinite(NextRidge))
                => AnchorIndex(NextRidge) # Sentinel

-----------------------------------------------------------------------------
(* src/week11/第11回課題_解答.py: 16-bit arithmetic on Python integers *)

\* the literal 0xFFFF
Mask16 == 65535

\* the largest product the model's integers hold
MaxProduct == 2000000000

\* the arguments tried: the operands of main (lines 71-78), the ends of the 16-bit
\* range, values beyond 16 bits and negative values
Operands ==
    {0, 1, 2, 18, 37, 255, 256, 13679, 22627, 25106, 32767, 32768, 33879,
     65535, 65536, 65537, 100000, -1, -2, -255, -32768, -65535, -65536, -100000}

\* bit i of the integer x in two's complement of unbounded width, which is how
\* Python's & reads a negative operand
Bit(x, i) == (x \div (2 ^ i)) % 2

RECURSIVE AndBits(_, _, _)
\* the bits of x & m from bit i up, for a mask m >= 0
AndBits(x, m, i) ==
    IF m \div (2 ^ i) = 0 THEN 0
    ELSE Bit(x, i) * Bit(m, i) * (2 ^ i) + AndBits(x, m, i + 1)

\* & on sign and magnitude: the mask applied to abs(x)
BitAndMagnitude(x, m) == AndBits(Abs(x), m, 0)

\* x & m
BitAnd(x, m) == AndBits(x, m, 0)

\* lines 4-9
half_16bit_add(a, b) == BitAnd(a + b, Mask16)

\* lines 11-16
half_16bit_sub(a, b) == BitAnd(a - b, Mask16)

\* lines 18-23
half_16bit_mul(a, b) == BitAnd(a * b, Mask16)

InitHalf ==
    /\ BuilderIdle
    /\ GenIdle
    /\ LoadIdle
    /\ OutlIdle
    /\ half_a \in Operands
    /\ half_b \in Operands
    /\ half_out = <<>>

CallAdd ==
    /\ half_out = <<>>
    /\ half_out' = <<"add", half_16bit_add(half_a, half_b)>>
    /\ UNCHANGED <<frame, parked, gen, load, outl, half_a, half_b>>

CallSub ==
    /\ half_out = <<>>
    /\ half_out' = <<"sub", half_16bit_sub(half_a, half_b)>>
    /\ UNCHANGED <<frame, parked, gen, load, outl, half_a, half_b>>

\* the product is computed where the model's integers can hold it
CallMul ==
    /\ half_out = <<>>
    /\ IF half_b = 0 THEN TRUE ELSE Abs(half_a) <= MaxProduct \div Abs(half_b)
    /\ half_out' = <<"mul", half_16bit_mul(half_a, half_b)>>
    /\ UNCHANGED <<frame, parked, gen, load, outl, half_a, half_b>>

NextHalf ==
    \/ CallAdd
    \/ CallSub
    \/ CallMul

SpecHalf == InitHalf /\ [][NextHalf]_vars

\* the exact integer the called function masks
Exact ==
    IF half_out[1] = "add" THEN half_a + half_b
    ELSE IF half_out[1] = "sub" THEN half_a - half_b
    ELSE half_a * half_b

\* C17: half_16bit_add, half_16bit_sub and half_16bit_mul return (a+b) mod 2^16,
\* (a-b) mod 2^16 and (a*b) mod 2^16, always in 0..0xFFFF; for 16-bit a < b the
\* difference is a - b + 65536.
C17_Half16Bit ==
    half_out # <<>> =>
        /\ half_out[2] \in 0..65535
        /\ half_out[2] = Exact % 65536
        /\ (half_out[1] = "sub" /\ half_a \in 0..65535 /\ half_b \in 0..65535
             /\ half_a < half_b) => half_out[2] = half_a - half_b + 65536

C17_Witness ==
    /\ half_a = 22627
    /\ half_b = 33879
    /\ half_out = <<"sub", 54284>>

-----------------------------------------------------------------------------
(* Two invocations of the builder whose steps are interleaved *)

\* the arguments, the locals and the results of the running invocation, as a value
Suspended ==
    [vor |-> vor, radius_arg |-> radius_arg, pc |-> pc, new_regions |-> new_regions,
     new_vertices |-> new_vertices, center |-> center, radius |-> radius,
     all_ridges |-> all_ridges, k |-> k, p1 |-> p1, j |-> j, pts |-> pts,
     region_vertices |-> region_vertices, calls |-> calls, returned |-> returned]

\* an invocation on diagram d with radius r that has not taken a step
NotStarted(d, r) ==
    [vor |-> d, radius_arg |-> r, pc |-> "start", new_regions |-> <<>>,
     new_vertices |-> <<>>, center |-> <<0, 0>>, radius |-> 0,
     all_ridges |-> <<>>, k |-> 0, p1 |-> 0, j |-> 0, pts |-> <<>>,
     region_vertices |-> <<>>, calls |-> 1, returned |-> <<>>]

\* the inputs of the interleaved invocations
PairInputs ==
    {<<ScenarioA, None>>, <<ScenarioA, <<Fx(50)>>>>, <<ScenarioB, <<Fx(5)>>>>,
     <<NearCollinear, None>>, <<Spatial, None>>, <<OneSite, None>>,
     <<TwoSites, None>>}

\* the first call of an invocation is in progress; it runs alone, to be the
\* reference for the calls that follow
Alone(f) == f.calls = 1 /\ f.pc \in {"index", "sites", "ridges"}

\* the running invocation is f
Running(f) ==
    /\ vor = f.vor
    /\ radius_arg = f.radius_arg
    /\ pc = f.pc
    /\ new_regions = f.new_regions
    /\ new_vertices = f.new_vertices
    /\ center = f.center
    /\ radius = f.radius
    /\ all_ridges = f.all_ridges
    /\ k = f.k
    /\ p1 = f.p1
    /\ j = f.j
    /\ pts = f.pts
    /\ region_vertices = f.region_vertices
    /\ calls = f.calls
    /\ returned = f.returned

InitPair ==
    /\ HalfIdle
    /\ GenIdle
    /\ LoadIdle
    /\ OutlIdle
    /\ \E x, y \in PairInputs :
          /\ x # y
          /\ Running(NotStarted(x[1], x[2]))
          /\ parked = NotStarted(y[1], y[2])

\* Switch with the output list shared by the two invocations
SwitchSharedOutput ==
    /\ ~Alone(Suspended)
    /\ ~Alone(parked)
    /\ parked' = Suspended
    /\ vor' = parked.vor
    /\ radius_arg' = parked.radius_arg
    /\ pc' = parked.pc
    /\ new_vertices' = parked.new_vertices
    /\ center' = parked.center
    /\ radius' = parked.radius
    /\ all_ridges' = parked.all_ridges
    /\ k' = parked.k
    /\ p1' = parked.p1
    /\ j' = parked.j
    /\ pts' = parked.pts
    /\ region_vertices' = parked.region_vertices
    /\ calls' = parked.calls
    /\ returned' = parked.returned
    /\ UNCHANGED <<new_regions, half, gen, load, outl>>

\* the running invocation is suspended between two of its steps and the other
\* one resumes where it was suspended
Switch ==
    /\ ~Alone(Suspended)
    /\ ~Alone(parked)
    /\ parked' = Suspended
    /\ vor' = parked.vor
    /\ radius_arg' = parked.radius_arg
    /\ pc' = parked.pc
    /\ new_regions' = parked.new_regions
    /\ new_vertices' = parked.new_vertices
    /\ center' = parked.center
    /\ radius' = parked.radius
    /\ all_ridges' = parked.all_ridges
    /\ k' = parked.k
    /\ p1' = parked.p1
    /\ j' = parked.j
    /\ pts' = parked.pts
    /\ region_vertices' = parked.region_vertices
    /\ calls' = parked.calls
    /\ returned' = parked.returned
    /\ UNCHANGED <<half, gen, load, outl>>

NextPair ==
    \/ Next
    \/ Switch

SpecPair == InitPair /\ [][NextPair]_vars

\* every call of invocation f that has returned, returned what the first call of f,
\* run alone, returned; and a later call of f is where no exception is raised
SameAsAlone(f) ==
    /\ \A i \in 1..Len(f.returned) : f.returned[i] = f.returned[1]
    /\ f.calls > 1 => f.pc \notin {"ValueError", "KeyError", "IndexError"}
    /\ f.pc = "done" =>
          /\ f.returned[Len(f.returned)] = f.new_regions
          /\ IsPrefix(f.vor.vertices, f.new_vertices)

\* C13: two invocations on different inputs, their steps interleaved in every
\* order, share no state: each call returns what the same invocation returns when
\* it runs alone.
C13_InterleavedCallsIndependent ==
    /\ SameAsAlone(Suspended)
    /\ SameAsAlone(parked)

C13_Witness ==
    /\ pc = "done"
    /\ parked.pc = "done"
    /\ vor = ScenarioA
    /\ parked.vor = ScenarioB
    /\ Len(returned) = MaxCalls
    /\ Len(parked.returned) = MaxCalls

-----------------------------------------------------------------------------
(* generate_voronoi: clipping and GeoJSON output                            *)
(* (src/free/generate_voronoi.py lines 84-200, src/free/debug_voronoi.py    *)
(* lines 86-190)                                                            *)

\* Point(pt).buffer(10)
FallbackRadius == 10

\* the two scripts that define generate_voronoi
Impls == {"generate_voronoi.py", "debug_voronoi.py"}

\* the diagrams Voronoi(pts_xy) returns for the projected sites tried
GenDiagrams == {ScenarioA, ScenarioB, NearCollinear, Flat}

\* the values of clip_margin_m tried
Margins == {Fx(2), Fx(25)}

\* the values of the argument labels tried
LabelArgs == {None, <<"A", "B">>}

\* lines 94-104: the label of site i (0-based) is labels[i] when there is one,
\* else "P" followed by i + 1
Labels(labels, n) ==
    [i \in 1..n |-> IF labels # None /\ i - 1 < Len(labels) THEN labels[i]
                    ELSE <<"P", i>>]

\* lines 117-120: box(minx - m, miny - m, maxx + m, maxy + m)
BBox(points, m) ==
    [minx |-> SetMin({points[i][1] : i \in 1..Len(points)}) - m,
     miny |-> SetMin({points[i][2] : i \in 1..Len(points)}) - m,
     maxx |-> SetMax({points[i][1] : i \in 1..Len(points)}) + m,
     maxy |-> SetMax({points[i][2] : i \in 1..Len(points)}) + m]

Sides == <<"left", "right", "bottom", "top">>

\* q is on the inner side of one side of the box b
InsideOf(q, side, b) ==
    IF side = "left" THEN q[1] >= b.minx
    ELSE IF side = "right" THEN q[1] <= b.maxx
    ELSE IF side = "bottom" THEN q[2] >= b.miny
    ELSE q[2] <= b.maxy

\* the point where the segment from q to r meets the line of one side of the box
Cut(q, r, side, b) ==
    IF side \in {"left", "right"}
    THEN LET x == IF side = "left" THEN b.minx ELSE b.maxx
             d == r[1] - q[1]
         IN  <<x, q[2] + RoundDiv((r[2] - q[2]) * (x - q[1]) * Sign(d), Abs(d))>>
    ELSE LET y == IF side = "bottom" THEN b.miny ELSE b.maxy
             d == r[2] - q[2]
         IN  <<q[1] + RoundDiv((r[1] - q[1]) * (y - q[2]) * Sign(d), Abs(d)), y>>

RECURSIVE ClipFrom(_, _, _, _)
\* the part of the ring on the inner side of one side of the box, from edge i on
ClipFrom(ring, side, b, i) ==
    IF i > Len(ring) THEN <<>>
    ELSE LET prev == IF i = 1 THEN ring[Len(ring)] ELSE ring[i - 1]
             cur  == ring[i]
             here == IF InsideOf(cur, side, b)
                     THEN IF InsideOf(prev, side, b) THEN <<cur>>
                          ELSE <<Cut(prev, cur, side, b), cur>>
                     ELSE IF InsideOf(prev, side, b) THEN <<Cut(prev, cur, side, b)>>
                          ELSE <<>>
         IN  here \o ClipFrom(ring, side, b, i + 1)

RECURSIVE ClipSides(_, _, _)
ClipSides(ring, b, n) ==
    IF n = 0 \/ ring = <<>> THEN ring
    ELSE ClipFrom(ClipSides(ring, b, n - 1), Sides[n], b, 1)

\* twice the signed area of a ring
Area2(ring) ==
    SumSeq([i \in 1..Len(ring) |->
               ring[i][1] * Succ(ring, i)[2] - Succ(ring, i)[1] * ring[i][2]])

\* the first point of a ring repeated as its last, as in exterior.coords
Closed(ring) == IF ring = <<>> THEN <<>> ELSE Append(ring, ring[1])

\* the geometry with the given boundary
Geometry(ring) ==
    [geom_type |-> IF ring = <<>> \/ Area2(ring) # 0 THEN "Polygon"
                   ELSE IF Cardinality(Elems(ring)) > 1 THEN "LineString"
                   ELSE "Point",
     exterior  |-> Closed(ring)]

\* Polygon(region).intersection(bbox), for a region whose intersection with the
\* box is in one piece
Intersection(region, b) == Geometry(ClipSides(region, b, 4))

\* poly.is_empty
IsEmpty(g) == g.exterior = <<>>

\* the open segments q-r and u-v cross
SegmentsCross(q, r, u, v) ==
    /\ Sign(Cross(q, r, u)) * Sign(Cross(q, r, v)) < 0
    /\ Sign(Cross(u, v, q)) * Sign(Cross(u, v, r)) < 0

\* poly.is_valid: a polygon has area and its boundary does not cross itself
IsValid(g) ==
    g.geom_type = "Polygon" =>
        /\ Area2(g.exterior) # 0
        /\ \A m, n \in 1..(Len(g.exterior) - 1) :
              ~SegmentsCross(g.exterior[m], g.exterior[m + 1],
                             g.exterior[n], g.exterior[n + 1])

\* Point(pt).buffer(10): the ring starts at (x + 10, y) and runs clockwise; of its
\* 64 vertices the four on the axes through pt are kept
Buffer(pt, r) ==
    Geometry(<<<<pt[1] + Fx(r), pt[2]>>, <<pt[1], pt[2] - Fx(r)>>,
               <<pt[1] - Fx(r), pt[2]>>, <<pt[1], pt[2] + Fx(r)>>>>)

\* the longitude and the latitude of the origin of the projected plane
Lon0 == Fx(135)
Lat0 == Fx(35)

\* inverse_transformer.transform(x, y) with always_xy=True: (lon, lat); near the
\* origin of the plane the inverse projection is a shift of each axis
InverseTransform(x, y) == <<Lon0 + x, Lat0 + y>>

\* generate_voronoi.py lines 167-170, debug_voronoi.py lines 164-165
transform_coords(im, coords) ==
    [i \in 1..Len(coords) |->
        LET ll == InverseTransform(coords[i][1], coords[i][2])
        IN  IF im = "debug_voronoi.py" THEN Reverse(ll) ELSE ll]

\* generate_voronoi.py lines 172-190, debug_voronoi.py lines 161-186: the feature
\* of one entry of poly_list
Feature(im, entry) ==
    [type       |-> "Feature",
     properties |-> [label |-> entry[1]],
     geometry   |->
        IF entry[2].geom_type = "Polygon"
        THEN [type |-> "Polygon",
              coordinates |-> <<transform_coords(im, entry[2].exterior)>>]
        ELSE [type |-> "Point",
              coordinates |-> InverseTransform(entry[3][1], entry[3][2])]]

\* lines 106-114: the sites are projected, the diagram is computed and the builder
\* is entered with the default radius
InitGen ==
    /\ parked = <<>>
    /\ HalfIdle
    /\ LoadIdle
    /\ OutlIdle
    /\ impl \in Impls
    /\ clip_margin_m \in Margins
    /\ gpc = "builder"
    /\ site = 0
    /\ poly_list = <<>>
    /\ features = <<>>
    /\ \E d \in GenDiagrams, l \in LabelArgs :
          /\ Running(NotStarted(d, None))
          /\ pts_labels = Labels(l, Len(d.points))

\* line 114: regions = voronoi_finite_polygons_2d(vor)
regions == returned[1]

\* the number of iterations of the loop over zip(regions, pts_labels, pts_xy)
Zipped == SetMin({Len(regions), Len(pts_labels), Len(vor.points)})

\* lines 114-122: the builder has returned; the loop over the sites begins
ClipBegin ==
    /\ gpc = "builder"
    /\ pc = "done"
    /\ gpc' = "clip"
    /\ UNCHANGED <<frame, parked, half, load, outl, impl, clip_margin_m, pts_labels, site,
                   poly_list, features>>

\* ClipFallback with no entry appended for the site
ClipFallbackDropped ==
    /\ gpc = "clip"
    /\ site < Zipped
    /\ LET poly == Intersection(At(regions, site), BBox(vor.points, clip_margin_m))
       IN  ~(~IsEmpty(poly) /\ IsValid(poly))
    /\ site' = site + 1
    /\ UNCHANGED <<frame, parked, half, load, outl, impl, clip_margin_m, pts_labels, gpc,
                   poly_list, features>>

\* lines 123-127: the intersection is kept
ClipKeep ==
    /\ gpc = "clip"
    /\ site < Zipped
    /\ LET poly == Intersection(At(regions, site), BBox(vor.points, clip_margin_m))
       IN  /\ ~IsEmpty(poly) /\ IsValid(poly)
           /\ poly_list' =
                 Append(poly_list, <<At(pts_labels, site), poly, At(vor.points, site)>>)
    /\ site' = site + 1
    /\ UNCHANGED <<frame, parked, half, load, outl, impl, clip_margin_m, pts_labels, gpc,
                   features>>

\* lines 123-129: the intersection is empty or invalid, a disk around the site
\* takes its place
ClipFallback ==
    /\ gpc = "clip"
    /\ site < Zipped
    /\ LET poly == Intersection(At(regions, site), BBox(vor.points, clip_margin_m))
       IN  ~(~IsEmpty(poly) /\ IsValid(poly))
    /\ poly_list' =
          Append(poly_list, <<At(pts_labels, site),
                              Buffer(At(vor.points, site), FallbackRadius),
                              At(vor.points, site)>>)
    /\ site' = site + 1
    /\ UNCHANGED <<frame, parked, half, load, outl, impl, clip_margin_m, pts_labels, gpc,
                   features>>

\* lines 131-161: the figure is drawn; poly.exterior exists for polygons only
Plot ==
    /\ gpc = "clip"
    /\ site = Zipped
    /\ gpc' = IF \A i \in 1..Len(poly_list) : poly_list[i][2].geom_type = "Polygon"
              THEN "geojson" ELSE "AttributeError"
    /\ site' = 0
    /\ UNCHANGED <<frame, parked, half, load, outl, impl, clip_margin_m, pts_labels,
                   poly_list, features>>

\* lines 164-190: one iteration of the loop over poly_list
AppendFeature ==
    /\ gpc = "geojson"
    /\ site < Len(poly_list)
    /\ features' = Append(features, Feature(impl, At(poly_list, site)))
    /\ site' = site + 1
    /\ UNCHANGED <<frame, parked, half, load, outl, impl, clip_margin_m, pts_labels, gpc,
                   poly_list>>

\* lines 192-194: the feature collection is written
Dump ==
    /\ gpc = "geojson"
    /\ site = Len(poly_list)
    /\ gpc' = "written"
    /\ UNCHANGED <<frame, parked, half, load, outl, impl, clip_margin_m, pts_labels, site,
                   poly_list, features>>

NextGen ==
    \/ Enter
    \/ IndexRidge
    \/ IndexDone
    \/ FiniteRegion
    \/ BeginReconstruct
    \/ RidgeBothFinite
    \/ RidgeFarPoint
    \/ CloseRegion
    \/ Return
    \/ ClipBegin
    \/ ClipKeep
    \/ ClipFallback
    \/ Plot
    \/ AppendFeature
    \/ Dump

SpecGen == InitGen /\ [][NextGen]_vars

\* q is in the box b, its boundary included
InBox(q, b) == \A n \in 1..4 : InsideOf(q, Sides[n], b)

\* q is in the box b and on none of its sides
StrictlyInBox(q, b) ==
    /\ b.minx < q[1] /\ q[1] < b.maxx
    /\ b.miny < q[2] /\ q[2] < b.maxy

\* the clip box of the running call of generate_voronoi
ClipBox == BBox(vor.points, clip_margin_m)

\* the loop of lines 123-129 has handled every site
Clipped == gpc \in {"geojson", "written", "AttributeError"}

\* C14: the clipping stage appends exactly one (label, geometry, point) entry per
\* site, in site order, and drops no site: the i-th entry has the label and the
\* point of site i; its geometry is the intersection of the region with the site
\* bounding box expanded by clip_margin_m when that is non-empty and valid (it then
\* lies within the box), otherwise the disk of radius 10 around the site (every
\* point of its ring is at distance 10 from the site).
C14_OneEntryPerSite ==
    (gpc = "clip" \/ Clipped) =>
        /\ Len(poly_list) = IF gpc = "clip" THEN site ELSE Len(vor.points)
        /\ \A i \in 1..Len(poly_list) :
              LET entry == poly_list[i]
                  inter == Intersection(new_regions[i], ClipBox)
                  kept  == ~IsEmpty(inter) /\ IsValid(inter)
              IN  /\ entry[1] = pts_labels[i]
                  /\ entry[3] = vor.points[i]
                  /\ kept => /\ entry[2] = inter
                             /\ \A q \in Elems(entry[2].exterior) : InBox(q, ClipBox)
                  /\ ~kept => /\ entry[2].geom_type = "Polygon"
                              /\ Len(entry[2].exterior) > 3
                              /\ \A q \in Elems(entry[2].exterior) :
                                    AtDistance(q, vor.points[i], Fx(10))

C14_Witness ==
    /\ Clipped
    /\ vor = Flat
    /\ clip_margin_m = Fx(2)
    /\ Len(poly_list) = 3
    /\ IsEmpty(Intersection(new_regions[3], ClipBox))
    /\ poly_list[3][1] = <<"P", 3>>
    /\ poly_list[3][3] = <<500, 50>>
    /\ poly_list[3][2].exterior[1] = <<1500, 50>>

\* C15: the feature collection written has exactly one feature per site, each
\* with the site's label, and every coordinate pair of a polygon is
\* (longitude, latitude), in both scripts.
C15_FeaturePerSiteLonLat ==
    gpc = "written" =>
        /\ Len(features) = Len(vor.points)
        /\ \A i \in 1..Len(features) :
              /\ features[i].properties.label = pts_labels[i]
              /\ features[i].geometry.type = "Polygon" =>
                    LET ring == poly_list[i][2].exterior
                        out  == features[i].geometry.coordinates[1]
                    IN  /\ Len(out) = Len(ring)
                        /\ \A m \in 1..Len(ring) :
                              /\ out[m][1] = Lon0 + ring[m][1]
                              /\ out[m][2] = Lat0 + ring[m][2]

\* the ridges of site i (0-based) that have exactly one sentinel
OpenRidges(i) ==
    {r \in 1..Len(vor.ridge_points) :
        /\ i \in Elems(vor.ridge_points[r])
        /\ (vor.ridge_vertices[r][1] = Sentinel) # (vor.ridge_vertices[r][2] = Sentinel)}

\* the anchors of site i: the finite ends of its one-sentinel ridges
AnchorsOf(i) ==
    {vor.vertices[SetMax(Elems(vor.ridge_vertices[r])) + 1] : r \in OpenRidges(i)}

\* the far points of the polygon emitted for site i
FarPointsOf(i) == Elems(Emitted(i)) \cap Synthetic

\* the radius is smaller than the distance from q to the boundary of the box b
RadiusBelowDistance(q, b) ==
    IF InBox(q, b)
    THEN radius < SetMin({q[1] - b.minx, b.maxx - q[1], q[2] - b.miny, b.maxy - q[2]})
    ELSE LET dx == SetMax({b.minx - q[1], 0, q[1] - b.maxx})
             dy == SetMax({b.miny - q[2], 0, q[2] - b.maxy})
         IN  radius * radius < dx * dx + dy * dy

\* the builder returned at its first call, one polygon per site; the far points of
\* site i are strictly inside the clip box and the clipped polygon of site i
\* touches no side of the box
Truncated(i) ==
    /\ pc = "done"
    /\ calls = 1
    /\ Len(regions) = Len(vor.points)
    /\ FarPointsOf(i) # {}
    /\ \A f \in FarPointsOf(i) : StrictlyInBox(f, ClipBox)
    /\ \A q \in Elems(poly_list[i + 1][2].exterior) : StrictlyInBox(q, ClipBox)

FiniteOf(i) == {m \in 1..Len(DiagramRegion(i)) : DiagramRegion(i)[m] # Sentinel}

\* C21: for every diagram of at least 3 distinct non-collinear sites, every region
\* emitted so far has at least 3 vertices, counted as coordinate entries and as
\* distinct points alike, also when the site's region lists fewer than 3 finite
\* vertices.
C21_AtLeastThreeVertices ==
    NonCollinearSites =>
        \A i \in Processed :
            /\ Len(Emitted(i)) >= 3
            /\ Cardinality(Elems(Emitted(i))) >= 3

C21_Witness ==
    /\ pc = "done"
    /\ vor = ScenarioA
    /\ NonCollinearSites
    /\ Cardinality(FiniteOf(0)) = 1
    /\ Len(Emitted(0)) = 5
    /\ Cardinality(Elems(Emitted(0))) = 3

-----------------------------------------------------------------------------
(* src/free/debug_voronoi.py lines 21-83: the second copy of the builder,   *)
(* as a function of its arguments                                           *)

RECURSIVE debug_all_ridges(_, _, _)
\* lines 37-40: the index after the ridges from the k-th (0-based) on are added to m
debug_all_ridges(d, kk, m) ==
    IF kk = Len(d.ridge_points) THEN m
    ELSE LET rp == At(d.ridge_points, kk)
             rv == At(d.ridge_vertices, kk)
             m1 == SetDefaultAppend(m, rp[1], <<rp[2], rv[1], rv[2]>>)
         IN  debug_all_ridges(d, kk + 1,
                              SetDefaultAppend(m1, rp[2], <<rp[1], rv[1], rv[2]>>))

RECURSIVE debug_ridges(_, _, _, _, _, _, _)
\* lines 53-68: the loop over the ridges of site q1 from the jj-th on; st holds
\* new_vertices, pts and whether an exception was raised
debug_ridges(d, c, r, q1, ridges, jj, st) ==
    IF jj = Len(ridges) THEN st
    ELSE LET ridge == At(ridges, jj)
             vv    == Swapped(ridge[2], ridge[3])
         IN  IF vv[1] >= 0 /\ vv[2] >= 0
             THEN debug_ridges(d, c, r, q1, ridges, jj + 1, st)
             ELSE IF OutOfRange(d.vertices, vv[2])
             THEN [st EXCEPT !.outcome = "IndexError"]
             ELSE LET table == Append(st.new_vertices, FarPoint(d, c, r, q1, ridge))
                  IN  debug_ridges(d, c, r, q1, ridges, jj + 1,
                                   [new_vertices |-> table,
                                    pts          |-> Append(st.pts, <<vv[2], Len(table) - 1>>),
                                    outcome      |-> st.outcome])

RECURSIVE debug_sites(_, _, _, _, _, _)
\* lines 43-83: the loop over the sites from site q on; st holds new_regions,
\* new_vertices and how the call has ended, if it has
debug_sites(d, c, r, index, q, st) ==
    IF q = NSites(d) THEN [st EXCEPT !.outcome = "done"]
    ELSE LET vertices == RegionOf(d, q)
         IN  IF AllFinite(vertices)
             THEN debug_sites(d, c, r, index, q + 1,
                              [st EXCEPT !.new_regions =
                                            Append(@, FiniteCoords(d, vertices))])
             ELSE IF q \notin DOMAIN index
             THEN [st EXCEPT !.outcome = "KeyError"]
             ELSE LET rr == debug_ridges(d, c, r, q, index[q], 0,
                                         [new_vertices |-> st.new_vertices,
                                          pts          |-> <<>>,
                                          outcome      |-> "running"])
                  IN  IF rr.outcome = "IndexError"
                      THEN [st EXCEPT !.new_vertices = rr.new_vertices,
                                      !.outcome = "IndexError"]
                      ELSE debug_sites(d, c, r, index, q + 1,
                              [new_regions  |-> Append(st.new_regions,
                                                   Polygon(rr.new_vertices,
                                                           RegionVertices(vertices, rr.pts))),
                               new_vertices |-> rr.new_vertices,
                               outcome      |-> "running"])

\* lines 21-83: what a call ends with: the list returned or the exception raised,
\* and the extended vertex table at that point
debug_voronoi_finite_polygons_2d(d, r) ==
    IF Dim(d) # 2
    THEN [new_regions |-> <<>>, new_vertices |-> <<>>, outcome |-> "ValueError"]
    ELSE debug_sites(d, Mean(d.points),
                     IF r = None THEN Ptp(d.points) * RadiusFactor ELSE r[1],
                     debug_all_ridges(d, 0, <<>>), 0,
                     [new_regions  |-> <<>>,
                      new_vertices |-> d.vertices,
                      outcome      |-> "running"])

\* the run of debug_voronoi.py's builder on the arguments of the running call
Debug == debug_voronoi_finite_polygons_2d(vor, radius_arg)

\* C22: run on the same diagram and radius, the builder of generate_voronoi.py and
\* the builder of debug_voronoi.py agree: at every step the extended vertex table
\* of the first is the table of the second at the same length (the table only
\* grows, so this is the same sequence of tables), the ridge index is the same,
\* the first returns exactly when the second does and then the lists of polygons
\* and the final tables are equal, and the first raises exactly when the second
\* does, with the same exception and the same table.
C22_SameAsDebugBuilder ==
    /\ pc \in {"index", "sites", "ridges"} =>
          /\ IsPrefix(vor.vertices, new_vertices)
          /\ IsPrefix(new_vertices, Debug.new_vertices)
          /\ IsPrefix(new_regions, Debug.new_regions) \/ Debug.outcome # "done"
    /\ pc \in {"sites", "ridges"} => all_ridges = debug_all_ridges(vor, 0, <<>>)
    /\ pc = "done" =>
          /\ Debug.outcome = "done"
          /\ new_regions = Debug.new_regions
          /\ new_vertices = Debug.new_vertices
          /\ returned[Len(returned)] = Debug.new_regions
    /\ Raised =>
          /\ Debug.outcome = pc
          /\ pc # "ValueError" => new_vertices = Debug.new_vertices
    /\ (pc # "start" /\ Debug.outcome # "done") => pc # "done"

C22_Witness ==
    /\ pc = "done"
    /\ vor = FlipRidgeVertices(ScenarioB)
    /\ radius_arg = <<Fx(5)>>
    /\ Debug.outcome = "done"
    /\ Len(Debug.new_regions) = 5
    /\ Len(Debug.new_vertices) = Len(vor.vertices) + 8
    /\ new_regions = Debug.new_regions

\* the ridges of site i (0-based) that have a sentinel endpoint
SentinelRidges(i) ==
    {r \in 1..Len(vor.ridge_points) :
        /\ i \in Elems(vor.ridge_points[r])
        /\ Sentinel \in Elems(vor.ridge_vertices[r])}

\* the (site, ridge) pairs, for the sites before site i, of a site whose region has
\* a sentinel and a ridge of that site with a sentinel endpoint
FarPairsBefore(i) ==
    {pr \in (0..(i - 1)) \X (1..Len(vor.ridge_points)) :
        HasSentinel(pr[1]) /\ pr[2] \in SentinelRidges(pr[1])}

\* the place in the extended vertex table (counted from 1) of the far point made
\* for site i and its ridge r: the far points are numbered site by site and, for
\* one site, in the order of the ridges
FarPlace(i, r) ==
    Len(vor.vertices) + Cardinality(FarPairsBefore(i))
        + Cardinality({q \in SentinelRidges(i) : q <= r})

\* C23: when the builder has returned, for every ridge with one sentinel endpoint
\* between two sites, the far point made for the ridge while reconstructing the
\* region of one site has the same coordinates as the one made while
\* reconstructing the region of the other; the two are stored at two different
\* places of the extended vertex table and the point is a vertex of both polygons.
C23_SharedFarPoint ==
    pc = "done" =>
        \A r \in 1..Len(vor.ridge_points) :
            LET a == vor.ridge_points[r][1]
                b == vor.ridge_points[r][2]
            IN  r \in OpenRidges(a) =>
                    /\ HasSentinel(a) /\ HasSentinel(b)
                    /\ FarPlace(a, r) # FarPlace(b, r)
                    /\ FarPlace(a, r) > Len(vor.vertices)
                    /\ FarPlace(b, r) > Len(vor.vertices)
                    /\ new_vertices[FarPlace(a, r)] = new_vertices[FarPlace(b, r)]
                    /\ new_vertices[FarPlace(a, r)] \in Elems(Emitted(a)) \cap Elems(Emitted(b))

C23_Witness ==
    /\ pc = "done"
    /\ vor = ScenarioA
    /\ radius_arg = None
    /\ 1 \in OpenRidges(vor.ridge_points[1][1])
    /\ FarPlace(vor.ridge_points[1][1], 1) # FarPlace(vor.ridge_points[1][2], 1)
    /\ new_vertices[FarPlace(vor.ridge_points[1][1], 1)]
          = new_vertices[FarPlace(vor.ridge_points[1][2], 1)]

\* C24: when the builder returns, the extended vertex table has len(vor.vertices)
\* + K entries, K the number of (site, ridge) pairs of a site whose region has a
\* sentinel and a ridge of the site with a sentinel endpoint. When a region has
\* just been reconstructed, the table has grown by one entry per such ridge of the
\* site, the new indices recorded are the last ones of the table in order, they
\* are referenced by this region once each and are beyond every index an earlier
\* region could reference, and the polygon emitted has (finite indices of the
\* region list) + 2 * (ridges of the site with a sentinel) entries.
C24_TableGrowth ==
    /\ pc = "done" =>
          Len(new_vertices) = Len(vor.vertices) + Cardinality(FarPairsBefore(Len(vor.points)))
    /\ JustClosed =>
          LET i     == p1 - 1
              first == Len(vor.vertices) + Cardinality(FarPairsBefore(i))
          IN  /\ Len(pts) = Cardinality(SentinelRidges(i))
              /\ Len(new_vertices) = first + Len(pts)
              /\ \A n \in 1..Len(pts) : pts[n][2] = first + n - 1
              /\ \A n \in 1..Len(pts) :
                    Cardinality({m \in 1..Len(region_vertices) :
                                    region_vertices[m] = pts[n][2]}) = 1
              /\ \A m \in 1..Len(region_vertices) : region_vertices[m] < Len(new_vertices)
              /\ {region_vertices[m] : m \in 1..Len(region_vertices)}
                    \cap (Len(vor.vertices)..(first - 1)) = {}
              /\ Len(Emitted(i)) = Cardinality(FiniteOf(i)) + 2 * Cardinality(SentinelRidges(i))

C24_Witness ==
    /\ pc = "done"
    /\ vor = ScenarioA
    /\ Len(new_vertices) = Len(vor.vertices) + 6
    /\ Cardinality(FarPairsBefore(3)) = 6
    /\ HasSentinel(2)
    /\ Cardinality(FiniteOf(2)) = 1
    /\ pts = <<<<0, 5>>, <<0, 6>>>>
    /\ Len(Emitted(2)) = 5

-----------------------------------------------------------------------------
(* load_data (src/data_analysis_assignment.py lines 49-83) and データ読み込み  *)
(* (src/総合課題実習.py lines 42-81).  A string is the sequence of its        *)
(* characters.                                                               *)

\* the number of prompts followed
MaxPrompts == 3

\* file names and lines typed at the prompt
Sample == <<"s", "a", "m", "p", "l", "e">>
SampleUpper == <<"S", "A", "M", "P", "L", "E">>
SamplePadded == <<" ", "S", "a", "m", "p", "l", "e", " ">>
SampleCsv == <<"s", "a", "m", "p", "l", "e", "_", "d", "a", "t", "a", ".", "c", "s", "v">>
SampleAirbnbCsv == <<"s", "a", "m", "p", "l", "e", "_", "a", "i", "r", "b", "n", "b", "_", "d", "a", "t", "a", ".", "c", "s", "v">>
GoodCsv == <<"a", ".", "c", "s", "v">>
GoodCsvQuoted == <<"\"", "a", ".", "c", "s", "v", "\"">>
GoodCsvPadded == <<" ", "'", "a", ".", "c", "s", "v", "'", " ">>
TabTxt == <<"b", ".", "t", "x", "t">>
CommaTxt == <<"c", ".", "t", "x", "t">>
BadTxt == <<"d", ".", "t", "x", "t">>
OtherExt == <<"e", ".", "d", "a", "t">>
BadCsv == <<"f", ".", "c", "s", "v">>
MissingCsv == <<"g", ".", "c", "s", "v">>
UpperExt == <<"A", ".", "C", "S", "V">>
RaggedCsv == <<"h", ".", "c", "s", "v">>
Empty == <<>>

\* the two scripts with the loading loop; "sogo_kadai_jisshu.py" stands for
\* src/総合課題実習.py
LoadImpls == {"data_analysis_assignment.py", "sogo_kadai_jisshu.py"}

\* the lines typed at the prompt
Typed ==
    {Sample, SampleUpper, SamplePadded, SampleCsv, GoodCsv, GoodCsvQuoted, GoodCsvPadded,
     TabTxt, CommaTxt, BadTxt, OtherExt, BadCsv, RaggedCsv, MissingCsv, UpperExt,
     Empty}

\* the outcome of a read that raises an exception
Raise == <<"raise">>

\* a data frame is named by where it comes from; the frame made by the sample
\* generator
SampleFrame == <<"sample">>

\* a file: what pd.read_csv(path) and pd.read_csv(path, sep='\t') give for it, a
\* data frame or Raise
File(csv, tab) == [csv |-> csv, tab |-> tab]

\* the files on disk when the script starts; g.csv and A.CSV do not exist
Disk0 ==
    [f \in {GoodCsv, TabTxt, CommaTxt, BadTxt, OtherExt, BadCsv, RaggedCsv} |->
        IF f = GoodCsv THEN File(<<"a">>, <<"a", "one column">>)
        ELSE IF f = TabTxt THEN File(<<"b", "one column">>, <<"b">>)
        ELSE IF f = CommaTxt THEN File(<<"c">>, Raise)
        ELSE IF f = BadTxt THEN File(Raise, Raise)
        ELSE IF f = OtherExt THEN File(<<"e">>, <<"e", "one column">>)
        ELSE IF f = RaggedCsv THEN File(Raise, <<"h">>)
        ELSE File(Raise, Raise)]

\* the same with a sample file left by an earlier run
Disk1 ==
    [f \in DOMAIN Disk0 \cup {SampleCsv} |->
        IF f = SampleCsv THEN File(<<"old sample">>, <<"old sample", "one column">>)
        ELSE Disk0[f]]

Disks == {Disk0, Disk1}

Whitespace == {" "}

RECURSIVE LStrip(_, _)
LStrip(str, chars) ==
    IF str # <<>> /\ Head(str) \in chars THEN LStrip(Tail(str), chars) ELSE str

RECURSIVE RStrip(_, _)
RStrip(str, chars) ==
    IF str # <<>> /\ str[Len(str)] \in chars
    THEN RStrip(SubSeq(str, 1, Len(str) - 1), chars) ELSE str

\* str.strip(chars)
Strip(str, chars) == RStrip(LStrip(str, chars), chars)

\* input(...).strip().strip('"').strip("'")
Cleaned(str) == Strip(Strip(Strip(str, Whitespace), {"\""}), {"'"})

UpperCase == <<"A", "B", "C", "D", "E", "F", "G", "H", "I", "J", "K", "L", "M",
               "N", "O", "P", "Q", "R", "S", "T", "U", "V", "W", "X", "Y", "Z">>
LowerCase == <<"a", "b", "c", "d", "e", "f", "g", "h", "i", "j", "k", "l", "m",
               "n", "o", "p", "q", "r", "s", "t", "u", "v", "w", "x", "y", "z">>

\* str.lower()
Lower(str) ==
    [i \in 1..Len(str) |->
        IF \E n \in 1..26 : UpperCase[n] = str[i]
        THEN LowerCase[CHOOSE n \in 1..26 : UpperCase[n] = str[i]]
        ELSE str[i]]

\* str.endswith(suffix)
EndsWith(str, suffix) ==
    /\ Len(str) >= Len(suffix)
    /\ SubSeq(str, Len(str) - Len(suffix) + 1, Len(str)) = suffix

\* os.path.exists(path)
Exists(files, path) == path \in DOMAIN files

\* the body of the try block: the frame read from the file at path, or "raise"
ReadFile(files, path) ==
    IF EndsWith(path, <<".", "c", "s", "v">>) THEN files[path].csv
    ELSE IF EndsWith(path, <<".", "t", "x", "t">>)
         THEN IF files[path].tab # Raise THEN files[path].tab ELSE files[path].csv
         ELSE files[path].csv

\* df.to_csv(filename): the file is created or replaced
ToCsv(files, path, df) ==
    [f \in DOMAIN files \cup {path} |->
        IF f = path
        THEN File(df \o <<"to_csv", "read_csv">>, df \o <<"to_csv", "read_csv tab">>)
        ELSE files[f]]

InitLoad ==
    /\ BuilderIdle
    /\ HalfIdle
    /\ GenIdle
    /\ OutlIdle
    /\ load_impl \in LoadImpls
    /\ load_pc = "prompt"
    /\ prompts = 1
    /\ typed = <<>>
    /\ disk \in Disks
    /\ load_df = None

\* data_analysis_assignment.py lines 56-59 and 61-79: 'sample' is typed, the sample
\* file is written and then read back like any other file
SampleWrittenAndRead ==
    /\ load_pc = "prompt"
    /\ load_impl = "data_analysis_assignment.py"
    /\ \E str \in Typed :
          /\ Lower(Cleaned(str)) = Sample
          /\ typed' = str
          /\ disk' = ToCsv(disk, SampleCsv, SampleFrame)
          /\ load_df' = ReadFile(disk', SampleCsv)
    /\ load_pc' = "returned"
    /\ UNCHANGED <<frame, parked, half, gen, outl, load_impl, prompts>>

\* 総合課題実習.py lines 52-54: 'sample' is typed, the generated frame is returned
SampleReturned ==
    /\ load_pc = "prompt"
    /\ load_impl = "sogo_kadai_jisshu.py"
    /\ \E str \in Typed :
          /\ Lower(Cleaned(str)) = Sample
          /\ typed' = str
    /\ disk' = ToCsv(disk, SampleAirbnbCsv, SampleFrame)
    /\ load_df' = SampleFrame
    /\ load_pc' = "returned"
    /\ UNCHANGED <<frame, parked, half, gen, outl, load_impl, prompts>>

\* lines 81-82 (総合課題実習.py lines 57-59): no such file, the prompt is shown again
FileMissing ==
    /\ load_pc = "prompt"
    /\ prompts < MaxPrompts
    /\ \E str \in Typed :
          /\ Lower(Cleaned(str)) # Sample
          /\ ~Exists(disk, Cleaned(str))
          /\ typed' = str
    /\ prompts' = prompts + 1
    /\ UNCHANGED <<frame, parked, half, gen, outl, load_impl, load_pc, disk, load_df>>

\* ReadFails with the exception not caught
ReadFailsEscapes ==
    /\ load_pc = "prompt"
    /\ prompts < MaxPrompts
    /\ \E str \in Typed :
          /\ Lower(Cleaned(str)) # Sample
          /\ Exists(disk, Cleaned(str))
          /\ ReadFile(disk, Cleaned(str)) = Raise
          /\ typed' = str
    /\ load_pc' = "Exception"
    /\ UNCHANGED <<frame, parked, half, gen, outl, load_impl, prompts, disk, load_df>>

\* lines 61-80 (総合課題実習.py lines 61-80): the read raises, the exception is caught
\* and the prompt is shown again
ReadFails ==
    /\ load_pc = "prompt"
    /\ prompts < MaxPrompts
    /\ \E str \in Typed :
          /\ Lower(Cleaned(str)) # Sample
          /\ Exists(disk, Cleaned(str))
          /\ ReadFile(disk, Cleaned(str)) = Raise
          /\ typed' = str
    /\ prompts' = prompts + 1
    /\ UNCHANGED <<frame, parked, half, gen, outl, load_impl, load_pc, disk, load_df>>

\* lines 61-78 (総合課題実習.py lines 61-77): the file is read and the frame returned
ReadOk ==
    /\ load_pc = "prompt"
    /\ \E str \in Typed :
          /\ Lower(Cleaned(str)) # Sample
          /\ Exists(disk, Cleaned(str))
          /\ ReadFile(disk, Cleaned(str)) # Raise
          /\ typed' = str
          /\ load_df' = ReadFile(disk, Cleaned(str))
    /\ load_pc' = "returned"
    /\ UNCHANGED <<frame, parked, half, gen, outl, load_impl, prompts, disk>>

NextLoad ==
    \/ SampleWrittenAndRead
    \/ SampleReturned
    \/ FileMissing
    \/ ReadFails
    \/ ReadOk

SpecLoad == InitLoad /\ [][NextLoad]_vars

\* the lines that ask for the sample data
SampleInputs == {Sample, SampleUpper, SamplePadded}

\* the file a line names, without the blanks and quotes around the name
Names(str) ==
    IF str \in {GoodCsvQuoted, GoodCsvPadded} THEN GoodCsv ELSE str

\* the reads tried on a file, by its extension
Attempts(files, f) ==
    IF f \in {TabTxt, CommaTxt, BadTxt} THEN {files[f].tab, files[f].csv}
    ELSE {files[f].csv}

\* the line names no file, or a file that no read tried on it can read
Unusable(files, str) ==
    \/ Names(str) \notin DOMAIN files
    \/ Attempts(files, Names(str)) = {Raise}

\* the generated sample data, as made or as written to and read from the sample file
SampleData == {SampleFrame, SampleFrame \o <<"to_csv", "read_csv">>}

\* one iteration of the prompt loop, on the line typed'
LoopIteration == load' # load

\* C25: the prompt loop returns only after a data set was read: a line naming a
\* missing file or a file whose read raises leads to a new prompt with nothing
\* returned and no exception escaping, however often it happens; a line asking
\* for 'sample' in any case returns the generated sample data; whatever is
\* returned was read from the file the line names
C25_ReturnsOnlyAfterRead ==
    [][LoopIteration =>
        /\ load_pc' \in {"prompt", "returned"}
        /\ typed' \in SampleInputs =>
              /\ load_pc' = "returned"
              /\ load_df' \in SampleData
        /\ (typed' \notin SampleInputs /\ Unusable(disk, typed')) =>
              /\ load_pc' = "prompt"
              /\ load_df' = None
              /\ prompts' = prompts + 1
        /\ (load_pc' = "returned" /\ typed' \notin SampleInputs) =>
              /\ Names(typed') \in DOMAIN disk
              /\ load_df' \in Attempts(disk, Names(typed')) \ {Raise}
        /\ load_pc' = "prompt" => load_df' = None]_vars

\* the sample data are returned at the third prompt, after a missing file and an
\* unreadable one
C25_Witness ==
    /\ load_pc = "returned"
    /\ load_impl = "data_analysis_assignment.py"
    /\ prompts = MaxPrompts
    /\ typed = SampleUpper
    /\ load_df = SampleFrame \o <<"to_csv", "read_csv">>
    /\ SampleCsv \in DOMAIN disk

-----------------------------------------------------------------------------
(* handle_outliers (src/data_analysis_assignment.py lines 85-123) and        *)
(* 外れ値処理 (src/総合課題実習.py lines 130-176).                            *)

\* column names and lines typed at the two prompts
Id == <<"i", "d">>
Price == <<"p", "r", "i", "c", "e">>
PricePadded == <<" ", "p", "r", "i", "c", "e", " ">>
RoomType == <<"r", "o", "o", "m", "_", "t", "y", "p", "e">>
One == <<"1">>
Two == <<"2">>
Yes == <<"y">>
YesUpper == <<"Y">>
YesPadded == <<" ", "y", " ">>
No == <<"n">>

\* a missing value of a numeric column; a value v is the cell <<v>>
NaN == <<>>

\* a row with the columns id and price
Row(i, p) == (Id :> <<i>>) @@ (Price :> p)

\* a data frame with the numeric columns id and price: the columns that
\* select_dtypes(include=[np.number]) gives, the index labels and the rows
FrameOf(prices) ==
    [numeric |-> {Id, Price},
     index |-> [i \in 1..Len(prices) |-> i - 1],
     rows |-> [i \in 1..Len(prices) |-> Row(i, prices[i])]]

\* a data frame with a text column only
TextOnly ==
    [numeric |-> {},
     index |-> <<0, 1>>,
     rows |-> <<(RoomType :> <<"Private">>), (RoomType :> <<"Shared">>)>>]

\* the data frames handed to the outlier step
Frames ==
    {FrameOf(<<<<10>>, <<12>>, <<11>>, <<13>>, <<12>>, <<500>>>>),
     FrameOf(<<<<10>>, <<12>>, NaN, <<13>>, <<12>>, <<500>>>>),
     FrameOf(<<<<-400>>, <<10>>, <<11>>, <<12>>, <<13>>, <<500>>>>),
     FrameOf(<<<<500>>, NaN, <<10>>, <<11>>, <<-400>>, <<12>>, NaN>>),
     FrameOf(<<<<10>>, <<11>>, <<12>>, <<13>>>>),
     FrameOf(<<<<10>>, NaN, <<12>>, <<13>>>>),
     FrameOf(<<NaN, NaN>>),
     FrameOf(<<>>),
     TextOnly}

\* the lines typed when the column is asked for
ColumnsTyped == {Price, PricePadded, Id, RoomType, Empty}

\* the lines typed when the deletion is asked for
ActionsTyped == {One, Two, Yes, YesUpper, YesPadded, No, Empty}

\* df[col]: the cells of a column in row order
Series(fr, col) == [i \in 1..Len(fr.rows) |-> fr.rows[i][col]]

\* the values of a series that are not missing, in row order
RECURSIVE DropNa(_)
DropNa(series) ==
    IF series = <<>> THEN <<>>
    ELSE IF Head(series) = NaN THEN DropNa(Tail(series))
    ELSE <<Head(series)[1]>> \o DropNa(Tail(series))

RECURSIVE InsertSorted(_, _)
InsertSorted(sorted, v) ==
    IF sorted = <<>> THEN <<v>>
    ELSE IF v <= Head(sorted) THEN <<v>> \o sorted
    ELSE <<Head(sorted)>> \o InsertSorted(Tail(sorted), v)

RECURSIVE SortValues(_)
SortValues(values) ==
    IF values = <<>> THEN <<>>
    ELSE InsertSorted(SortValues(Tail(values)), Head(values))

\* the unit of a quantile (a quarter of the unit of the data) and of a bound
\* (an eighth)
Quarters == 4
Eighths == 8

\* series.quantile(q / 4), in quarters: linear interpolation between the sorted
\* values that are not missing, NaN when there is none
Quantile(series, q) ==
    LET sorted == SortValues(DropNa(series))
        pos == (Len(sorted) - 1) * q
        lo == pos \div Quarters
        part == pos % Quarters
    IN  IF sorted = <<>> THEN NaN
        ELSE IF part = 0 THEN <<Quarters * sorted[lo + 1]>>
        ELSE <<Quarters * sorted[lo + 1] + part * (sorted[lo + 2] - sorted[lo + 1])>>

\* Q1 - 1.5 * IQR, in eighths
LowerBound(series) ==
    LET Q1 == Quantile(series, 1)
        Q3 == Quantile(series, 3)
    IN  IF Q1 = NaN THEN NaN ELSE <<2 * Q1[1] - 3 * (Q3[1] - Q1[1])>>

\* Q3 + 1.5 * IQR, in eighths
UpperBound(series) ==
    LET Q1 == Quantile(series, 1)
        Q3 == Quantile(series, 3)
    IN  IF Q1 = NaN THEN NaN ELSE <<2 * Q3[1] + 3 * (Q3[1] - Q1[1])>>

\* the comparisons of a cell with a bound: false when either is NaN
Lt(cell, bound) == cell # NaN /\ bound # NaN /\ Eighths * cell[1] < bound[1]
Gt(cell, bound) == cell # NaN /\ bound # NaN /\ Eighths * cell[1] > bound[1]
Ge(cell, bound) == cell # NaN /\ bound # NaN /\ Eighths * cell[1] >= bound[1]
Le(cell, bound) == cell # NaN /\ bound # NaN /\ Eighths * cell[1] <= bound[1]

\* (df[col] < lower_bound) | (df[col] > upper_bound)
OutlierMask(series) ==
    [i \in 1..Len(series) |->
        Lt(series[i], LowerBound(series)) \/ Gt(series[i], UpperBound(series))]

\* (df[col] >= lower_bound) & (df[col] <= upper_bound)
KeepMask(series) ==
    [i \in 1..Len(series) |->
        Ge(series[i], LowerBound(series)) /\ Le(series[i], UpperBound(series))]

\* the positions at which a mask is true, from position i on
RECURSIVE Where(_, _)
Where(mask, i) ==
    IF i > Len(mask) THEN <<>>
    ELSE IF mask[i] THEN <<i>> \o Where(mask, i + 1)
    ELSE Where(mask, i + 1)

\* df[mask]
Select(fr, mask) ==
    LET at == Where(mask, 1)
    IN  [numeric |-> fr.numeric,
         index |-> [n \in 1..Len(at) |-> fr.index[at[n]]],
         rows |-> [n \in 1..Len(at) |-> fr.rows[at[n]]]]

\* the column name each script looks up: 総合課題実習.py strips the line (line 141),
\* data_analysis_assignment.py does not (line 98)
ColumnOf(im, str) ==
    IF im = "sogo_kadai_jisshu.py" THEN Strip(str, Whitespace) ELSE str

\* the answer that deletes: '1' (line 114), or 'y' after strip and lower
\* (総合課題実習.py lines 168-169)
Confirms(im, str) ==
    IF im = "sogo_kadai_jisshu.py" THEN Lower(Strip(str, Whitespace)) = Yes
    ELSE str = One

InitOutlier ==
    /\ BuilderIdle
    /\ HalfIdle
    /\ GenIdle
    /\ LoadIdle
    /\ out_impl \in LoadImpls
    /\ out_pc = "called"
    /\ out_df \in Frames
    /\ col_typed = None
    /\ action_typed = None
    /\ reported = None
    /\ out_ret = None

\* lines 91-95 (総合課題実習.py lines 132-136): no numeric column
NoNumericColumn ==
    /\ out_pc = "called"
    /\ out_df.numeric = {}
    /\ out_pc' = "return df"
    /\ out_ret' = out_df
    /\ UNCHANGED <<frame, parked, half, gen, load, out_impl, out_df, col_typed,
                   action_typed, reported>>

\* lines 98-100 and 123 (総合課題実習.py lines 141-145): the column typed is not one of
\* the numeric columns
ColumnSkipped ==
    /\ out_pc = "called"
    /\ out_df.numeric # {}
    /\ \E str \in ColumnsTyped :
          /\ ColumnOf(out_impl, str) \notin out_df.numeric
          /\ col_typed' = str
    /\ out_pc' = "return df"
    /\ out_ret' = out_df
    /\ UNCHANGED <<frame, parked, half, gen, load, out_impl, out_df, action_typed,
                   reported>>

\* lines 98-112 and 120-123 (総合課題実習.py lines 141-164, 175-176): no outlier
NoOutlier ==
    /\ out_pc = "called"
    /\ out_df.numeric # {}
    /\ \E str \in ColumnsTyped :
          /\ ColumnOf(out_impl, str) \in out_df.numeric
          /\ col_typed' = str
          /\ LET outliers == Select(out_df,
                                 OutlierMask(Series(out_df, ColumnOf(out_impl, str))))
             IN  /\ Len(outliers.rows) = 0
                 /\ reported' = <<Len(outliers.rows)>>
    /\ out_pc' = "return df"
    /\ out_ret' = out_df
    /\ UNCHANGED <<frame, parked, half, gen, load, out_impl, out_df, action_typed>>

\* lines 98-114 and 118-123 (総合課題実習.py lines 141-169, 175-176): outliers are
\* reported and the answer does not delete them
OutliersKept ==
    /\ out_pc = "called"
    /\ out_df.numeric # {}
    /\ \E str \in ColumnsTyped, answer \in ActionsTyped :
          /\ ColumnOf(out_impl, str) \in out_df.numeric
          /\ col_typed' = str
          /\ LET outliers == Select(out_df,
                                 OutlierMask(Series(out_df, ColumnOf(out_impl, str))))
             IN  /\ Len(outliers.rows) > 0
                 /\ reported' = <<Len(outliers.rows)>>
          /\ ~Confirms(out_impl, answer)
          /\ action_typed' = answer
    /\ out_pc' = "return df"
    /\ out_ret' = out_df
    /\ UNCHANGED <<frame, parked, half, gen, load, out_impl, out_df>>

\* lines 98-117 (総合課題実習.py lines 141-173): outliers are reported, the answer
\* deletes them and df_clean is returned
OutliersDeleted ==
    /\ out_pc = "called"
    /\ out_df.numeric # {}
    /\ \E str \in ColumnsTyped, answer \in ActionsTyped :
          /\ ColumnOf(out_impl, str) \in out_df.numeric
          /\ col_typed' = str
          /\ LET outliers == Select(out_df,
                                 OutlierMask(Series(out_df, ColumnOf(out_impl, str))))
             IN  /\ Len(outliers.rows) > 0
                 /\ reported' = <<Len(outliers.rows)>>
          /\ Confirms(out_impl, answer)
          /\ action_typed' = answer
          /\ out_ret' = Select(out_df, KeepMask(Series(out_df, ColumnOf(out_impl, str))))
    /\ out_pc' = "return df_clean"
    /\ UNCHANGED <<frame, parked, half, gen, load, out_impl, out_df>>

NextOutlier ==
    \/ NoNumericColumn
    \/ ColumnSkipped
    \/ NoOutlier
    \/ OutliersKept
    \/ OutliersDeleted

SpecOutlier == InitOutlier /\ [][NextOutlier]_vars

\* the outlier step has returned
OutlierStepReturned == out_pc \in {"return df", "return df_clean"}

\* the index labels of a frame
LabelsOf(fr) == {fr.index[i] : i \in 1..Len(fr.index)}

\* the column the line typed names
ChosenColumn == Strip(col_typed, Whitespace)

\* the labels of the rows counted as outliers: value < lower bound or
\* value > upper bound
CountedAsOutliers ==
    LET series == Series(out_df, ChosenColumn)
    IN  {out_df.index[i] : i \in {n \in 1..Len(series) :
            \/ Lt(series[n], LowerBound(series))
            \/ Gt(series[n], UpperBound(series))}}

\* the rows of fr are rows of the frame from, with their labels, in the same order
InOrderOf(fr, from) ==
    /\ \A n \in 1..Len(fr.rows) :
          \E i \in 1..Len(from.rows) :
              /\ from.index[i] = fr.index[n]
              /\ from.rows[i] = fr.rows[n]
    /\ \A n \in 1..Len(fr.index) - 1 : fr.index[n] < fr.index[n + 1]

\* C26: the outlier step returns the input frame unchanged unless the chosen
\* column is numeric, an outlier is detected and the user confirms the deletion;
\* when it deletes, the rows removed are exactly the rows counted as outliers, so
\* the reported count plus the remaining rows is the original row count, also
\* with missing values in the column, and the remaining rows keep their order
C26_DeletesExactlyTheOutliers ==
    OutlierStepReturned =>
        /\ out_ret # out_df =>
              /\ ChosenColumn \in out_df.numeric
              /\ CountedAsOutliers # {}
              /\ Lower(Strip(action_typed, Whitespace)) \in {One, Yes}
        /\ out_pc = "return df_clean" =>
              /\ LabelsOf(out_df) \ LabelsOf(out_ret) = CountedAsOutliers
              /\ reported[1] + Len(out_ret.rows) = Len(out_df.rows)
              /\ InOrderOf(out_ret, out_df)

====
